---- MODULE Spec2Model ----
(***************************************************************************)
(* Model of connect3 (github.com/N3moAhead/connect3): the bubbletea        *)
(* session state machine model.Update of cmd/connect3/main.go, together    *)
(* with loadData / saveData and the JSON document they read and write.     *)
(*                                                                         *)
(* Text is a sequence of one-character strings, so that TrimSpace,         *)
(* ToLower, Contains, Atoi and Sprintf("%d") are computed.  A Go pointer   *)
(* to a Person / Relation is modelled by the value it points to: the       *)
(* pointed-to storage is either a private copy (&i) or an element of a     *)
(* People array that no later handler writes before the pointer is reset.  *)
(* A nil slice and an empty slice are both <<>>.                           *)
(***************************************************************************)
EXTENDS Integers, Sequences, FiniteSets, TLC

\* ------------------------------------------------------------------ bounds
\* longest text typed into the name, notes and description fields
MaxText == 1
\* longest text typed into the tag search field
MaxTagInput == 1
\* most tags held by the pending tag buffer
MaxTags == 2
\* number of identifiers uuid.New() hands out during one run
MaxNew == 2
\* number of store writes that may fail during one run
MaxWriteFailures == 1
\* number of key messages handled during one run
MaxEvents == 10
\* number of key messages handled after a start from main
MaxBootEvents == 5
MaxTagEvents == 5

\* --------------------------------------------------------------- constants
\* tiRelStr.CharLimit
RelStrCharLimit == 1
\* config.DB_FORMAT_VERSION
DB_FORMAT_VERSION == "1.0.0"

\* a Go pointer: Nil, or Ref(v) pointing to the value v
Nil == <<>>
Ref(v) == <<v>>
Deref(ptr) == ptr[1]

\* the file at dbPath: absent, present but not readable, zero bytes, bytes
\* that are not json, or a json document
NoFile == [kind |-> "absent"]
Unreadable == [kind |-> "unreadable"]
EmptyFile == [kind |-> "empty"]
Malformed == [kind |-> "malformed"]
JSONFile(doc) == [kind |-> "json", doc |-> doc]

\* the json value of a "version" member: a string or a number
JSONString(s) == [str |-> s]
JSONNumber(n) == [num |-> n]

\* the identifiers uuid.New().String() returns, in the order of the calls
UUIDs == <<"u1", "u2", "u3", "u4", "u5", "u6">>

\* printable keys typed in the person form, the relation form and the tag view
PersonKeys == {"A"}
RelationKeys == {"9", "3", "x"}
TagKeys == {"W", " "}

\* ------------------------------------------------------------ text helpers
Digits == {"0", "1", "2", "3", "4", "5", "6", "7", "8", "9"}

DigitVal(c) ==
  CASE c = "0" -> 0 [] c = "1" -> 1 [] c = "2" -> 2 [] c = "3" -> 3
    [] c = "4" -> 4 [] c = "5" -> 5 [] c = "6" -> 6 [] c = "7" -> 7
    [] c = "8" -> 8 [] c = "9" -> 9

DigitChar(d) == <<"0", "1", "2", "3", "4", "5", "6", "7", "8", "9">>[d + 1]

RECURSIVE DigitsVal(_)
DigitsVal(s) ==
  IF s = <<>> THEN 0
  ELSE 10 * DigitsVal(SubSeq(s, 1, Len(s) - 1)) + DigitVal(s[Len(s)])

\* strconv.Atoi with the error dropped: 0 on a syntax error
Atoi(s) ==
  IF s = <<>> THEN 0
  ELSE LET body == IF s[1] \in {"+", "-"} THEN Tail(s) ELSE s
       IN  IF body = <<>> \/ \E i \in 1..Len(body) : body[i] \notin Digits
           THEN 0
           ELSE IF s[1] = "-" THEN 0 - DigitsVal(body) ELSE DigitsVal(body)

RECURSIVE NatText(_)
NatText(n) ==
  IF n < 10 THEN <<DigitChar(n)>>
  ELSE Append(NatText(n \div 10), DigitChar(n % 10))

\* fmt.Sprintf("%d", n)
SprintfD(n) == IF n < 0 THEN <<"-">> \o NatText(0 - n) ELSE NatText(n)

\* textinput.SetValue under a CharLimit (0 = no limit)
SetValue(s, limit) ==
  IF limit > 0 /\ Len(s) > limit THEN SubSeq(s, 1, limit) ELSE s

\* a printable key typed into a textinput under a CharLimit
InsertRune(s, c, limit) ==
  IF limit > 0 /\ Len(s) >= limit THEN s ELSE Append(s, c)

\* the backspace key in a textinput
DeleteCharacterBackward(s) ==
  IF s = <<>> THEN s ELSE SubSeq(s, 1, Len(s) - 1)

\* strings.ToLower, on the letters of the model
LowerChar(c) ==
  CASE c = "W" -> "w" [] c = "A" -> "a" [] OTHER -> c

ToLower(s) == [i \in 1..Len(s) |-> LowerChar(s[i])]

RECURSIVE TrimLeft(_)
TrimLeft(s) ==
  IF s # <<>> /\ s[1] = " " THEN TrimLeft(Tail(s)) ELSE s

RECURSIVE TrimRight(_)
TrimRight(s) ==
  IF s # <<>> /\ s[Len(s)] = " " THEN TrimRight(SubSeq(s, 1, Len(s) - 1)) ELSE s

\* strings.TrimSpace
TrimSpace(s) == TrimRight(TrimLeft(s))

\* strings.Contains
Contains(s, sub) ==
  \E i \in 0..(Len(s) - Len(sub)) : SubSeq(s, i + 1, i + Len(sub)) = sub

\* byte value of a character, for the < of Go strings
Ord(c) ==
  CASE c = " " -> 32 [] c = "3" -> 51 [] c = "9" -> 57 [] c = "A" -> 65
    [] c = "B" -> 66 [] c = "W" -> 87 [] c = "a" -> 97 [] c = "k" -> 107
    [] c = "o" -> 111 [] c = "r" -> 114 [] c = "w" -> 119 [] c = "x" -> 120

RECURSIVE StrLess(_, _)
StrLess(a, b) ==
  IF b = <<>> THEN FALSE
  ELSE IF a = <<>> THEN TRUE
  ELSE IF a[1] # b[1] THEN Ord(a[1]) < Ord(b[1])
  ELSE StrLess(Tail(a), Tail(b))

\* sort.Slice(items, <) on a set of distinct strings
RECURSIVE SortTags(_)
SortTags(S) ==
  IF S = {} THEN <<>>
  ELSE LET m == CHOOSE x \in S : \A y \in S \ {x} : StrLess(x, y)
       IN  <<m>> \o SortTags(S \ {m})

Range(s) == {s[i] : i \in 1..Len(s)}

\* --------------------------------------------------- the document and JSON
\* person.Person
Person(id, name, notes, tags) ==
  [ID |-> id, Name |-> name, Notes |-> notes, Tags |-> tags]

\* relation.Relation
Relation(id, from, to, strength, desc) ==
  [ID |-> id, FromID |-> from, ToID |-> to, Strength |-> strength,
   Description |-> desc]

\* db.Database
Database(people, relations, version) ==
  [People |-> people, Relations |-> relations, Version |-> version]

\* a Person marshalled without its tags
MarshalPerson_NoTags(p) ==
  [id |-> p.ID, name |-> p.Name, notes |-> p.Notes]

\* json.MarshalIndent of a Person, a Relation and the Database: the struct
\* fields under their json names
MarshalPerson(p) ==
  [id |-> p.ID, name |-> p.Name, notes |-> p.Notes, tags |-> p.Tags]

\* a Relation marshalled without its id
MarshalRelation_NoID(r) ==
  [from_id |-> r.FromID, to_id |-> r.ToID,
   strength |-> r.Strength, description |-> r.Description]

MarshalRelation(r) ==
  [id |-> r.ID, from_id |-> r.FromID, to_id |-> r.ToID,
   strength |-> r.Strength, description |-> r.Description]

Marshal(d) ==
  [version |-> JSONString(d.Version),
   people |-> [i \in 1..Len(d.People) |-> MarshalPerson(d.People[i])],
   relations |-> [i \in 1..Len(d.Relations) |-> MarshalRelation(d.Relations[i])]]

\* a json object's member, or the Go zero value when the member is missing
Member(obj, k, zero) == IF k \in DOMAIN obj THEN obj[k] ELSE zero

UnmarshalPerson(o) ==
  Person(Member(o, "id", ""), Member(o, "name", <<>>), Member(o, "notes", <<>>),
         Member(o, "tags", <<>>))

UnmarshalRelation(o) ==
  Relation(Member(o, "id", ""), Member(o, "from_id", ""), Member(o, "to_id", ""),
           Member(o, "strength", 0), Member(o, "description", <<>>))

\* a string field decoded from a json value: a value that is not a string
\* leaves the field at its zero value
UnmarshalString(v) == IF "str" \in DOMAIN v THEN v.str ELSE ""

\* json.Unmarshal(byteValue, &database) with the error dropped: the zero
\* Database when the bytes do not parse, and every member that decodes when
\* only the type of another member is wrong
Unmarshal(file) ==
  IF file.kind # "json" THEN Database(<<>>, <<>>, "")
  ELSE LET ps == Member(file.doc, "people", <<>>)
           rs == Member(file.doc, "relations", <<>>)
       IN  Database([i \in 1..Len(ps) |-> UnmarshalPerson(ps[i])],
                    [i \in 1..Len(rs) |-> UnmarshalRelation(rs[i])],
                    UnmarshalString(Member(file.doc, "version", JSONString(""))))

\* whether json.Unmarshal(byteValue, &database) returns an error
UnmarshalFails(file) ==
  \/ file.kind # "json"
  \/ "str" \notin DOMAIN Member(file.doc, "version", JSONString(""))

\* the outcomes of os.WriteFile, which opens the file with O_CREATE|O_TRUNC
\* and then writes: "ok", "fail" when the file cannot be opened, "partial"
\* when the write fails after the file was truncated
WriteOutcomes == {"ok", "fail", "partial"}

\* the file after os.WriteFile(dbPath, bytes, 0644) on the file old
WriteBytes(old, bytes, outcome) ==
  CASE outcome = "ok" -> bytes
    [] outcome = "fail" -> old
    [] outcome = "partial" -> Malformed

\* os.WriteFile(dbPath, file, 0644) of saveData, with the error dropped
WriteFile(old, d, outcome) == WriteBytes(old, JSONFile(Marshal(d)), outcome)

\* the loop without its ID test: every Relation gets a new ID
RECURSIVE BackfillIDs_All(_, _)
BackfillIDs_All(rels, n) ==
  IF rels = <<>> THEN [rels |-> <<>>, n |-> n]
  ELSE LET rest == BackfillIDs_All(Tail(rels), n + 1)
       IN  [rels |-> <<[rels[1] EXCEPT !.ID = UUIDs[n + 1]]>> \o rest.rels,
            n |-> rest.n]

\* the loop of loadData that gives every Relation without an ID a new one;
\* n is the number of identifiers handed out before the loop
RECURSIVE BackfillIDs(_, _)
BackfillIDs(rels, n) ==
  IF rels = <<>> THEN [rels |-> <<>>, n |-> n]
  ELSE LET r == rels[1]
           fresh == r.ID = ""
           head == IF fresh THEN [r EXCEPT !.ID = UUIDs[n + 1]] ELSE r
           rest == BackfillIDs(Tail(rels), IF fresh THEN n + 1 ELSE n)
       IN  [rels |-> <<head>> \o rest.rels, n |-> rest.n]

\* loadData saving the empty Database when the file cannot be opened
loadData_CreateStore(file, n, outcome) ==
  IF file.kind \in {"absent", "unreadable"}
  THEN [db |-> Database(<<>>, <<>>, DB_FORMAT_VERSION),
        file |-> WriteFile(file, Database(<<>>, <<>>, DB_FORMAT_VERSION), outcome),
        n |-> n, writes |-> 1]
  ELSE LET database == Unmarshal(file)
           filled == BackfillIDs(database.Relations, n)
           dirty == filled.n # n
           loaded == [database EXCEPT !.Relations = filled.rels]
       IN  [db |-> loaded,
            file |-> IF dirty THEN WriteFile(file, loaded, outcome) ELSE file,
            n |-> filled.n,
            writes |-> IF dirty THEN 1 ELSE 0]

\* loadData(dbPath): the Database returned, the file left behind, the number
\* of identifiers handed out and the number of writes made
loadData(file, n, outcome) ==
  IF file.kind \in {"absent", "unreadable"}
  THEN [db |-> Database(<<>>, <<>>, DB_FORMAT_VERSION), file |-> file,
        n |-> n, writes |-> 0]
  ELSE LET database == Unmarshal(file)
           filled == BackfillIDs(database.Relations, n)
           dirty == filled.n # n
           loaded == [database EXCEPT !.Relations = filled.rels]
       IN  [db |-> loaded,
            file |-> IF dirty THEN WriteFile(file, loaded, outcome) ELSE file,
            n |-> filled.n,
            writes |-> IF dirty THEN 1 ELSE 0]

\* --------------------------------------------------------------- migration
\* migration.Migration; Apply is the name of the transform
Migration(from, to, apply) ==
  [FromVersion |-> from, ToVersion |-> to, Apply |-> apply]

\* the value migration.migrations is initialised with
ShippedMigrations ==
  <<Migration("0.0.1", "1.0.0", "migrate_0_0_1_to_1_0_0")>>

\* a json object with the member k set to v
SetMember(obj, k, v) ==
  [m \in DOMAIN obj \cup {k} |-> IF m = k THEN v ELSE obj[m]]

\* the transform giving every person an empty tag list
migrate_0_0_1_to_1_0_0_Overwrite(data) ==
  IF "people" \notin DOMAIN data THEN data
  ELSE [data EXCEPT !.people =
          [i \in 1..Len(@) |-> SetMember(@[i], "tags", <<>>)]]

\* migrate_0_0_1_to_1_0_0: a person without a "tags" member gets the empty
\* list
migrate_0_0_1_to_1_0_0(data) ==
  IF "people" \notin DOMAIN data THEN data
  ELSE [data EXCEPT !.people =
          [i \in 1..Len(@) |->
             IF "tags" \in DOMAIN @[i] THEN @[i]
             ELSE SetMember(@[i], "tags", <<>>)]]

\* foundMigration.Apply(data): the transform of the shipped table, and two
\* transforms a table can hold besides it, one that returns data as it is and
\* one that returns an error
ApplyMigration(m, data) ==
  CASE m.Apply = "migrate_0_0_1_to_1_0_0" ->
         [data |-> migrate_0_0_1_to_1_0_0(data), err |-> FALSE]
    [] m.Apply = "keep" -> [data |-> data, err |-> FALSE]
    [] m.Apply = "fail" -> [data |-> data, err |-> TRUE]

\* data["version"].(string), with the fallback of RunMigrations
VersionOf(data) ==
  IF "version" \in DOMAIN data /\ "str" \in DOMAIN data.version
  THEN data.version.str
  ELSE "0.0.0"

\* the first Migration of migs whose FromVersion is ver, or Nil
FoundMigration(migs, ver) ==
  IF \E i \in 1..Len(migs) : migs[i].FromVersion = ver
  THEN Ref(migs[CHOOSE i \in 1..Len(migs) :
                  /\ migs[i].FromVersion = ver
                  /\ \A j \in 1..(i - 1) : migs[j].FromVersion # ver])
  ELSE Nil

\* the line fmt.Printf("Migrating DB from %s to %s...") prints
Migrating(from, to) == [from |-> from, to |-> to]

\* the loop going on after a transform that returned an error
RECURSIVE MigrationLoop_Swallow(_, _, _, _)
MigrationLoop_Swallow(migs, data, ver, n) ==
  LET found == FoundMigration(migs, ver)
  IN  IF found = Nil
      THEN [data |-> data, err |-> FALSE, applied |-> n, printed |-> <<>>]
      ELSE LET rest == MigrationLoop_Swallow(migs,
                         SetMember(ApplyMigration(Deref(found), data).data,
                                   "version", JSONString(Deref(found).ToVersion)),
                         Deref(found).ToVersion, n + 1)
           IN  [rest EXCEPT !.printed =
                  <<Migrating(ver, Deref(found).ToVersion)>> \o @]

\* the loop that does not move on from the version it started at after its
\* first transform
RECURSIVE MigrationLoop_Twice(_, _, _, _)
MigrationLoop_Twice(migs, data, ver, n) ==
  LET found == FoundMigration(migs, ver)
  IN  IF found = Nil
      THEN [data |-> data, err |-> FALSE, applied |-> n, printed |-> <<>>]
      ELSE LET r == ApplyMigration(Deref(found), data)
               line == <<Migrating(ver, Deref(found).ToVersion)>>
           IN  IF r.err
               THEN [data |-> data, err |-> TRUE, applied |-> n, printed |-> line]
               ELSE LET rest == MigrationLoop_Twice(migs,
                                  SetMember(r.data, "version",
                                            JSONString(Deref(found).ToVersion)),
                                  IF n = 0 THEN ver ELSE Deref(found).ToVersion,
                                  n + 1)
                    IN  [rest EXCEPT !.printed = line \o @]

\* the for loop of RunMigrations, from the version ver with n transforms
\* applied so far; printed are the lines it prints, one for each transform it
\* calls
RECURSIVE MigrationLoop(_, _, _, _)
MigrationLoop(migs, data, ver, n) ==
  LET found == FoundMigration(migs, ver)
  IN  IF found = Nil
      THEN [data |-> data, err |-> FALSE, applied |-> n, printed |-> <<>>]
      ELSE LET r == ApplyMigration(Deref(found), data)
               line == <<Migrating(ver, Deref(found).ToVersion)>>
           IN  IF r.err
               THEN [data |-> data, err |-> TRUE, applied |-> n, printed |-> line]
               ELSE LET rest == MigrationLoop(migs,
                                  SetMember(r.data, "version",
                                            JSONString(Deref(found).ToVersion)),
                                  Deref(found).ToVersion, n + 1)
                    IN  [rest EXCEPT !.printed = line \o @]

\* the dirty test without its condition: the document is always written back
WritesBack_Always(applied) == TRUE

\* dirty: whether RunMigrations writes the document back
WritesBack(applied) == applied > 0

\* RunMigrations(dbPath) under the table migs: whether it returns an error,
\* the file it leaves, the number of writes it made and of transforms it
\* applied, and the lines it printed; outcome is the outcome of its
\* os.WriteFile
RunMigrations(migs, file, outcome) ==
  IF file.kind = "absent"
  THEN [err |-> FALSE, file |-> file, writes |-> 0, applied |-> 0,
        printed |-> <<>>]
  ELSE IF file.kind # "json"
  THEN [err |-> TRUE, file |-> file, writes |-> 0, applied |-> 0,
        printed |-> <<>>]
  ELSE LET loop == MigrationLoop(migs, file.doc, VersionOf(file.doc), 0)
       IN  IF loop.err
           THEN [err |-> TRUE, file |-> file, writes |-> 0,
                 applied |-> loop.applied, printed |-> loop.printed]
           ELSE IF WritesBack(loop.applied)
           THEN [err |-> outcome # "ok",
                 file |-> WriteBytes(file, JSONFile(loop.data), outcome),
                 writes |-> 1, applied |-> loop.applied,
                 printed |-> loop.printed]
           ELSE [err |-> FALSE, file |-> file, writes |-> 0,
                 applied |-> loop.applied, printed |-> loop.printed]

\* ---------------------------------------------------------------- helpers
\* getName
getName(people, id) ==
  IF \E i \in 1..Len(people) : people[i].ID = id
  THEN people[CHOOSE i \in 1..Len(people) :
                /\ people[i].ID = id
                /\ \A j \in 1..(i - 1) : people[j].ID # id].Name
  ELSE <<"Unknown">>

\* peopleToItems
peopleToItems(people) == people

\* getAllUniqueTags: the keys of its tagMap (the order of the items it
\* returns is the map's iteration order and is not used by any caller)
getAllUniqueTags(people) ==
  UNION {Range(people[i].Tags) : i \in 1..Len(people)}

\* the filter comparing the term with the tag as it is written
TagListItems_CaseSensitive(people, tags, input) ==
  LET term == ToLower(TrimSpace(input))
      tagMap == getAllUniqueTags(people) \cup Range(tags)
  IN  SortTags({t \in tagMap : term = <<>> \/ Contains(t, term)})

\* the items updateTagListFilter puts into listTags
TagListItems(people, tags, input) ==
  LET term == ToLower(TrimSpace(input))
      tagMap == getAllUniqueTags(people) \cup Range(tags)
  IN  SortTags({t \in tagMap : term = <<>> \/ Contains(ToLower(t), term)})

\* relation.RelationItem
RelationItem(r, other, direction) ==
  [Rel |-> r, OtherName |-> other, Direction |-> direction]

\* the list of the relations that start at the person only
RelationListItems_FromOnly(d, sel) ==
  LET touching == SelectSeq(d.Relations, LAMBDA r : r.FromID = sel.ID)
  IN  [i \in 1..Len(touching) |->
         RelationItem(touching[i], getName(d.People, touching[i].ToID), "->")]

\* the items refreshRelationList puts into listRelations
RelationListItems(d, sel) ==
  LET touching == SelectSeq(d.Relations,
                    LAMBDA r : r.FromID = sel.ID \/ r.ToID = sel.ID)
  IN  [i \in 1..Len(touching) |->
         LET r == touching[i]
         IN  IF r.ToID = sel.ID
             THEN RelationItem(r, getName(d.People, r.FromID), "<-")
             ELSE RelationItem(r, getName(d.People, r.ToID), "->")]

\* the clamp without its upper bound
ClampStrength_NoUpper(strVal) ==
  IF strVal < 1 THEN 1 ELSE strVal

\* the clamp of the relation form's commit
ClampStrength(strVal) ==
  IF strVal < 1 THEN 1 ELSE IF strVal > 5 THEN 5 ELSE strVal

\* ------------------------------------------------------------------ state
VARIABLES
  pc,             \* where main is: "main", "migrated", "session" or "exited"
  migrations,     \* migration.migrations
  state,          \* m.state
  db,             \* m.db
  disk,           \* the file at m.dbPath
  disk0,          \* the file at dbPath when the program was started
  listPeople,     \* items of m.listPeople
  listRelations,  \* items of m.listRelations
  listTags,       \* items of m.listTags
  tagCursor,      \* index (from 0) of the highlighted item of m.listTags
  selectedPerson, \* *m.selectedPerson, or Nil
  selectedRel,    \* *m.selectedRel, or Nil
  targetPerson,   \* *m.targetPerson, or Nil
  isEditing,      \* m.isEditing
  inputName,      \* m.inputName.Value()
  inputNotes,     \* m.inputNotes.Value()
  nameFocused,    \* m.inputName.Focused()
  notesFocused,   \* m.inputNotes.Focused()
  inputRelStr,    \* m.inputRelStr.Value()
  inputRelDesc,   \* m.inputRelDesc.Value()
  relStrFocused,  \* m.inputRelStr.Focused()
  relDescFocused, \* m.inputRelDesc.Focused()
  inputTag,       \* m.inputTag.Value()
  tempTags,       \* m.tempTags
  issued,         \* number of identifiers uuid.New() has handed out
  failed,         \* number of store writes that have failed
  events,         \* number of key messages handled so far
  lastEvent,      \* the handler that ran last
  lastSel,        \* index of the SelectedItem() the last handler read, or 0
  lastWrites,     \* number of saveData calls the last handler made
  lastOutcome     \* outcome of the most recent store write, or "none"

listVars == <<listPeople, listRelations, listTags, tagCursor>>
selVars == <<selectedPerson, selectedRel, targetPerson>>
personFormVars == <<inputName, inputNotes, nameFocused, notesFocused>>
relFormVars == <<inputRelStr, inputRelDesc, relStrFocused, relDescFocused>>
tagVars == <<inputTag, tempTags>>
storeVars == <<disk, failed, lastWrites, lastOutcome>>
vars == <<pc, migrations, disk0, state, db, listVars, selVars, isEditing, personFormVars,
          relFormVars, tagVars, issued, storeVars, events, lastEvent, lastSel>>

\* the store files the session is started on
TagWork == <<"w", "o", "r", "k">>

StoredPeople ==
  <<[id |-> "a", name |-> <<"A">>, notes |-> <<>>, tags |-> <<>>],
    [id |-> "b", name |-> <<"B">>, notes |-> <<>>, tags |-> <<TagWork>>]>>

StoredRelations ==
  <<[id |-> "r", from_id |-> "a", to_id |-> "b", strength |-> 9,
     description |-> <<>>]>>

InitFiles ==
  {NoFile,
   JSONFile([version |-> JSONString(DB_FORMAT_VERSION), people |-> StoredPeople,
             relations |-> StoredRelations])}

\* the model initialModel(dbPath) returns on the store file
initialModel(file) ==
    LET ld == loadData(file, 0, "ok")
    IN  /\ pc = "session"
        /\ migrations = ShippedMigrations
        /\ state = "viewListPeople"
        /\ db = ld.db
        /\ disk = ld.file
        /\ disk0 = file
        /\ listPeople = peopleToItems(ld.db.People)
        /\ listRelations = <<>>
        /\ listTags = SortTags(getAllUniqueTags(ld.db.People))
        /\ tagCursor = 0
        /\ selectedPerson = Nil
        /\ selectedRel = Nil
        /\ targetPerson = Nil
        /\ isEditing = FALSE
        /\ inputName = <<>>
        /\ inputNotes = <<>>
        /\ nameFocused = FALSE
        /\ notesFocused = FALSE
        /\ inputRelStr = <<>>
        /\ inputRelDesc = <<>>
        /\ relStrFocused = FALSE
        /\ relDescFocused = FALSE
        /\ inputTag = <<>>
        /\ tempTags = <<>>
        /\ issued = ld.n
        /\ failed = 0
        /\ events = 0
        /\ lastEvent = "initialModel"
        /\ lastSel = 0
        /\ lastWrites = ld.writes
        /\ lastOutcome = "none"

\* the session after initialModel(dbPath)
Init == \E file \in InitFiles : initialModel(file)

\* one tea.KeyMsg delivered to model.Update and handled by the branch e
\* (sel is the index of the list item the branch read, 0 when it read none)
KeyMsg(e, sel) ==
  /\ pc = "session"
  /\ UNCHANGED <<pc, migrations, disk0>>
  /\ events < MaxEvents
  /\ events' = events + 1
  /\ lastEvent' = e
  /\ lastSel' = sel

\* ------------------------------------------------------------ persistence
\* saveData called before the handler changed m.db
saveData_Stale(d, outcome) ==
  /\ outcome # "ok" => failed < MaxWriteFailures
  /\ disk' = WriteFile(disk, db, outcome)
  /\ failed' = IF outcome # "ok" THEN failed + 1 ELSE failed
  /\ lastWrites' = 1
  /\ lastOutcome' = outcome

\* saveData(m.db, m.dbPath) called once by a handler, on the Database d
saveData(d, outcome) ==
  /\ outcome # "ok" => failed < MaxWriteFailures
  /\ disk' = WriteFile(disk, d, outcome)
  /\ failed' = IF outcome # "ok" THEN failed + 1 ELSE failed
  /\ lastWrites' = 1
  /\ lastOutcome' = outcome

\* a handler that does not call saveData
NoSave ==
  /\ UNCHANGED <<disk, failed, lastOutcome>>
  /\ lastWrites' = 0

\* --------------------------------------------------- 1. main people list
\* viewListPeople, "n"
ListPeopleNew ==
  /\ state = "viewListPeople"
  /\ tempTags' = <<>>
  /\ state' = "viewPersonForm"
  /\ isEditing' = FALSE
  /\ inputName' = <<>>
  /\ inputNotes' = <<>>
  /\ nameFocused' = TRUE
  /\ notesFocused' = FALSE
  /\ KeyMsg("ListPeopleNew", 0)
  /\ NoSave
  /\ UNCHANGED <<db, listVars, selVars, relFormVars, inputTag, issued>>

\* "enter" going to the detail view without m.selectedPerson = &i
ListPeopleEnter_NoSelect ==
  /\ state = "viewListPeople"
  /\ \E sel \in 0..Len(listPeople) :
       /\ IF sel # 0
          THEN /\ state' = "viewDetail"
               /\ listRelations' = RelationListItems(db, listPeople[sel])
          ELSE UNCHANGED <<state, listRelations>>
       /\ KeyMsg("ListPeopleEnter", sel)
  /\ NoSave
  /\ UNCHANGED <<db, listPeople, listTags, tagCursor, selVars,
                 isEditing, personFormVars, relFormVars, tagVars, issued>>

\* viewListPeople, "enter": sel is the index of listPeople.SelectedItem(),
\* 0 when there is none (empty list, or a filter that matches nothing)
ListPeopleEnter ==
  /\ state = "viewListPeople"
  /\ \E sel \in 0..Len(listPeople) :
       /\ IF sel # 0
          THEN /\ selectedPerson' = Ref(listPeople[sel])
               /\ state' = "viewDetail"
               /\ listRelations' = RelationListItems(db, listPeople[sel])
          ELSE UNCHANGED <<selectedPerson, state, listRelations>>
       /\ KeyMsg("ListPeopleEnter", sel)
  /\ NoSave
  /\ UNCHANGED <<db, listPeople, listTags, tagCursor, selectedRel, targetPerson,
                 isEditing, personFormVars, relFormVars, tagVars, issued>>

\* ----------------------------------------------------------- 2. detail view
\* viewDetail, "esc" / "backspace"
DetailBack ==
  /\ state = "viewDetail"
  /\ state' = "viewListPeople"
  /\ selectedPerson' = Nil
  /\ KeyMsg("DetailBack", 0)
  /\ NoSave
  /\ UNCHANGED <<db, listVars, selectedRel, targetPerson, isEditing,
                 personFormVars, relFormVars, tagVars, issued>>

\* viewDetail, "E"
DetailEditPerson ==
  /\ state = "viewDetail"
  /\ tempTags' = Deref(selectedPerson).Tags
  /\ state' = "viewPersonForm"
  /\ isEditing' = TRUE
  /\ inputName' = SetValue(Deref(selectedPerson).Name, 0)
  /\ inputNotes' = SetValue(Deref(selectedPerson).Notes, 0)
  /\ nameFocused' = TRUE
  /\ notesFocused' = FALSE
  /\ KeyMsg("DetailEditPerson", 0)
  /\ NoSave
  /\ UNCHANGED <<db, listVars, selVars, relFormVars, inputTag, issued>>

\* viewDetail, "ctrl+g"
DetailManageTags ==
  /\ state = "viewDetail"
  /\ tempTags' = Deref(selectedPerson).Tags
  /\ isEditing' = TRUE
  /\ inputName' = SetValue(Deref(selectedPerson).Name, 0)
  /\ inputNotes' = SetValue(Deref(selectedPerson).Notes, 0)
  /\ inputTag' = <<>>
  /\ listTags' = TagListItems(db.People, tempTags', inputTag')
  /\ tagCursor' = 0
  /\ state' = "viewTagSelect"
  /\ KeyMsg("DetailManageTags", 0)
  /\ NoSave
  /\ UNCHANGED <<db, listPeople, listRelations, selVars, nameFocused,
                 notesFocused, relFormVars, issued>>

\* viewDetail, "D"
DetailDeletePerson ==
  /\ state = "viewDetail"
  /\ state' = "viewConfirmDeletePerson"
  /\ KeyMsg("DetailDeletePerson", 0)
  /\ NoSave
  /\ UNCHANGED <<db, listVars, selVars, isEditing, personFormVars, relFormVars,
                 tagVars, issued>>

\* viewDetail, "n" (the title read dereferences m.selectedPerson)
DetailNewRelation ==
  /\ state = "viewDetail"
  /\ Deref(selectedPerson).Name = Deref(selectedPerson).Name
  /\ state' = "viewRelationTarget"
  /\ KeyMsg("DetailNewRelation", 0)
  /\ NoSave
  /\ UNCHANGED <<db, listVars, selVars, isEditing, personFormVars, relFormVars,
                 tagVars, issued>>

\* viewDetail, "e": sel is the index of listRelations.SelectedItem()
DetailEditRelation ==
  /\ state = "viewDetail"
  /\ IF Len(listRelations) > 0
     THEN \E sel \in 1..Len(listRelations) :
            LET i == listRelations[sel]
            IN  /\ selectedRel' = Ref(i.Rel)
                /\ state' = "viewRelationForm"
                /\ isEditing' = TRUE
                /\ inputRelDesc' = SetValue(i.Rel.Description, 0)
                /\ inputRelStr' = SetValue(SprintfD(i.Rel.Strength), RelStrCharLimit)
                /\ relStrFocused' = TRUE
                /\ relDescFocused' = FALSE
                /\ KeyMsg("DetailEditRelation", sel)
     ELSE /\ UNCHANGED <<selectedRel, state, isEditing, relFormVars>>
          /\ KeyMsg("DetailEditRelation", 0)
  /\ NoSave
  /\ UNCHANGED <<db, listVars, selectedPerson, targetPerson, personFormVars,
                 tagVars, issued>>

\* "d" going to the confirmation whatever the relation list holds
DetailDeleteRelation_Unguarded ==
  /\ state = "viewDetail"
  /\ state' = "viewConfirmDeleteRelation"
  /\ KeyMsg("DetailDeleteRelation", 0)
  /\ NoSave
  /\ UNCHANGED <<db, listVars, selVars, isEditing, personFormVars, relFormVars,
                 tagVars, issued>>

\* viewDetail, "d"
DetailDeleteRelation ==
  /\ state = "viewDetail"
  /\ IF Len(listRelations) > 0
     THEN \E sel \in 1..Len(listRelations) :
            /\ selectedRel' = Ref(listRelations[sel].Rel)
            /\ state' = "viewConfirmDeleteRelation"
            /\ KeyMsg("DetailDeleteRelation", sel)
     ELSE /\ UNCHANGED <<selectedRel, state>>
          /\ KeyMsg("DetailDeleteRelation", 0)
  /\ NoSave
  /\ UNCHANGED <<db, listVars, selectedPerson, targetPerson, isEditing,
                 personFormVars, relFormVars, tagVars, issued>>

\* ----------------------------------------------------------- 3. person form
\* index of the first element of s whose ID is id, 0 when there is none
IndexOfID(s, id) ==
  IF \E i \in 1..Len(s) : s[i].ID = id
  THEN CHOOSE i \in 1..Len(s) :
         /\ s[i].ID = id
         /\ \A j \in 1..(i - 1) : s[j].ID # id
  ELSE 0

\* the edit loop without its ID test
UpdatePerson_FirstRow(people, id, name, notes, tags) ==
  IF people = <<>> THEN people
  ELSE [people EXCEPT ![1] = [@ EXCEPT !.Name = name, !.Notes = notes,
                                       !.Tags = tags]]

\* the edit loop of the person form's save logic
UpdatePerson(people, id, name, notes, tags) ==
  LET i == IndexOfID(people, id)
  IN  IF i = 0 THEN people
      ELSE [people EXCEPT ![i] = [@ EXCEPT !.Name = name, !.Notes = notes,
                                           !.Tags = tags]]

\* the create branch without the Tags field
CreatePerson_NoTags(people, id, name, notes, tags) ==
  Append(people, Person(id, name, notes, <<>>))

\* the create branch of the person form's save logic; id is uuid.New().String()
CreatePerson(people, id, name, notes, tags) ==
  Append(people, Person(id, name, notes, tags))

\* "esc" always leaving to the people list
PersonFormExit_List(editing) == "viewListPeople"

\* the view the "esc" of the person form leaves to
PersonFormExit(editing) == IF editing THEN "viewDetail" ELSE "viewListPeople"

\* viewPersonForm, "esc"
PersonFormEsc ==
  /\ state = "viewPersonForm"
  /\ state' = PersonFormExit(isEditing)
  /\ KeyMsg("PersonFormEsc", 0)
  /\ NoSave
  /\ UNCHANGED <<db, listVars, selVars, isEditing, personFormVars, relFormVars,
                 tagVars, issued>>

\* viewPersonForm, "tab"
PersonFormTab ==
  /\ state = "viewPersonForm"
  /\ IF nameFocused
     THEN nameFocused' = FALSE /\ notesFocused' = TRUE
     ELSE notesFocused' = FALSE /\ nameFocused' = TRUE
  /\ KeyMsg("PersonFormTab", 0)
  /\ NoSave
  /\ UNCHANGED <<state, db, listVars, selVars, isEditing, inputName, inputNotes,
                 relFormVars, tagVars, issued>>

\* viewPersonForm, "ctrl+g"
PersonFormManageTags ==
  /\ state = "viewPersonForm"
  /\ inputTag' = <<>>
  /\ listTags' = TagListItems(db.People, tempTags, inputTag')
  /\ tagCursor' = 0
  /\ state' = "viewTagSelect"
  /\ nameFocused' = FALSE
  /\ notesFocused' = FALSE
  /\ KeyMsg("PersonFormManageTags", 0)
  /\ NoSave
  /\ UNCHANGED <<db, listPeople, listRelations, selVars, isEditing, inputName,
                 inputNotes, relFormVars, tempTags, issued>>

\* the save logic of the person form's "enter"
PersonFormCommit ==
  /\ IF isEditing
     THEN LET id == Deref(selectedPerson).ID
              i == IndexOfID(db.People, id)
          IN  /\ db' = [db EXCEPT !.People =
                          UpdatePerson(@, id, inputName, inputNotes, tempTags)]
              /\ selectedPerson' =
                   IF i = 0 THEN selectedPerson ELSE Ref(db'.People[i])
              /\ UNCHANGED issued
     ELSE /\ issued < MaxNew
          /\ db' = [db EXCEPT !.People =
                      CreatePerson(@, UUIDs[issued + 1], inputName,
                                   inputNotes, tempTags)]
          /\ issued' = issued + 1
          /\ UNCHANGED selectedPerson
  /\ \E outcome \in WriteOutcomes : saveData(db', outcome)
  /\ listPeople' = peopleToItems(db'.People)
  /\ state' = IF isEditing THEN "viewDetail" ELSE "viewListPeople"
  /\ UNCHANGED <<nameFocused, notesFocused>>

\* "enter" saving whichever field is focused
PersonFormEnter_OneStage ==
  /\ state = "viewPersonForm"
  /\ PersonFormCommit
  /\ KeyMsg("PersonFormEnter", 0)
  /\ UNCHANGED <<listRelations, listTags, tagCursor, selectedRel, targetPerson,
                 isEditing, inputName, inputNotes, relFormVars, tagVars>>

\* viewPersonForm, "enter"
PersonFormEnter ==
  /\ state = "viewPersonForm"
  /\ IF nameFocused
     THEN /\ nameFocused' = FALSE
          /\ notesFocused' = TRUE
          /\ NoSave
          /\ UNCHANGED <<state, db, listPeople, selectedPerson, issued>>
     ELSE PersonFormCommit
  /\ KeyMsg("PersonFormEnter", 0)
  /\ UNCHANGED <<listRelations, listTags, tagCursor, selectedRel, targetPerson,
                 isEditing, inputName, inputNotes, relFormVars, tagVars>>

\* viewPersonForm, a printable key: both inputs get the message, the focused
\* ones take it
PersonFormType ==
  /\ state = "viewPersonForm"
  /\ \E c \in PersonKeys :
       /\ nameFocused => Len(inputName) < MaxText
       /\ notesFocused => Len(inputNotes) < MaxText
       /\ inputName' = IF nameFocused THEN InsertRune(inputName, c, 0) ELSE inputName
       /\ inputNotes' = IF notesFocused THEN InsertRune(inputNotes, c, 0) ELSE inputNotes
  /\ KeyMsg("PersonFormType", 0)
  /\ NoSave
  /\ UNCHANGED <<state, db, listVars, selVars, isEditing, nameFocused,
                 notesFocused, relFormVars, tagVars, issued>>

\* viewPersonForm, "backspace"
PersonFormBackspace ==
  /\ state = "viewPersonForm"
  /\ inputName' = IF nameFocused THEN DeleteCharacterBackward(inputName) ELSE inputName
  /\ inputNotes' = IF notesFocused THEN DeleteCharacterBackward(inputNotes) ELSE inputNotes
  /\ KeyMsg("PersonFormBackspace", 0)
  /\ NoSave
  /\ UNCHANGED <<state, db, listVars, selVars, isEditing, nameFocused,
                 notesFocused, relFormVars, tagVars, issued>>

\* --------------------------------------------------- 4. tag selection view
\* the resolve that takes the typed text whenever there is some
ResolveTag_Typed(items, cursor, input) ==
  IF TrimSpace(input) # <<>> THEN TrimSpace(input)
  ELSE IF Len(items) > 0 /\ cursor < Len(items) THEN items[cursor + 1]
  ELSE <<>>

\* the tag the "enter" of the tag view resolves to; cursor is the index (from
\* 0) of listTags.SelectedItem()
ResolveTag(items, cursor, input) ==
  LET first == IF Len(items) > 0 /\ cursor < Len(items)
               THEN items[cursor + 1]
               ELSE TrimSpace(input)
  IN  IF first = <<>> /\ input # <<>> THEN TrimSpace(input) ELSE first

\* the append without the test for a tag that is already there
AddTag_Always(tags, selectedTag) ==
  IF selectedTag # <<>> THEN Append(tags, selectedTag) ELSE tags

\* the append of the resolved tag to m.tempTags
AddTag(tags, selectedTag) ==
  IF selectedTag # <<>> /\ ~(\E i \in 1..Len(tags) : tags[i] = selectedTag)
  THEN Append(tags, selectedTag)
  ELSE tags

\* "esc" returning to the person form for a new person
TagSelectEsc_Creating ==
  /\ state = "viewTagSelect"
  /\ state' = "viewPersonForm"
  /\ nameFocused' = TRUE
  /\ isEditing' = FALSE
  /\ KeyMsg("TagSelectEsc", 0)
  /\ NoSave
  /\ UNCHANGED <<db, listVars, selVars, inputName, inputNotes,
                 notesFocused, relFormVars, tagVars, issued>>

\* viewTagSelect, "esc"
TagSelectEsc ==
  /\ state = "viewTagSelect"
  /\ state' = "viewPersonForm"
  /\ nameFocused' = TRUE
  /\ KeyMsg("TagSelectEsc", 0)
  /\ NoSave
  /\ UNCHANGED <<db, listVars, selVars, isEditing, inputName, inputNotes,
                 notesFocused, relFormVars, tagVars, issued>>

\* viewTagSelect, "down" / "up": listTags moves its cursor inside the list
TagSelectMove ==
  /\ state = "viewTagSelect"
  /\ \E k \in {"down", "up"} :
       tagCursor' = IF k = "down"
                    THEN (IF tagCursor + 1 < Len(listTags) THEN tagCursor + 1 ELSE tagCursor)
                    ELSE (IF tagCursor > 0 THEN tagCursor - 1 ELSE tagCursor)
  /\ KeyMsg("TagSelectMove", 0)
  /\ NoSave
  /\ UNCHANGED <<state, db, listPeople, listRelations, listTags, selVars,
                 isEditing, personFormVars, relFormVars, tagVars, issued>>

\* "enter" storing the tags of the selected person at once
TagSelectEnter_Save ==
  /\ state = "viewTagSelect"
  /\ LET selectedTag == ResolveTag(listTags, tagCursor, inputTag)
     IN  /\ Len(AddTag(tempTags, selectedTag)) <= MaxTags
         /\ tempTags' = AddTag(tempTags, selectedTag)
  /\ IF isEditing
     THEN /\ db' = [db EXCEPT !.People =
                     UpdatePerson(@, Deref(selectedPerson).ID,
                                  Deref(selectedPerson).Name,
                                  Deref(selectedPerson).Notes, tempTags')]
          /\ \E outcome \in WriteOutcomes : saveData(db', outcome)
     ELSE UNCHANGED db /\ NoSave
  /\ state' = "viewPersonForm"
  /\ nameFocused' = TRUE
  /\ KeyMsg("TagSelectEnter", 0)
  /\ UNCHANGED <<listVars, selVars, isEditing, inputName, inputNotes,
                 notesFocused, relFormVars, inputTag, issued>>

\* viewTagSelect, "enter"
TagSelectEnter ==
  /\ state = "viewTagSelect"
  /\ LET selectedTag == ResolveTag(listTags, tagCursor, inputTag)
     IN  /\ Len(AddTag(tempTags, selectedTag)) <= MaxTags
         /\ tempTags' = AddTag(tempTags, selectedTag)
  /\ state' = "viewPersonForm"
  /\ nameFocused' = TRUE
  /\ KeyMsg("TagSelectEnter", 0)
  /\ NoSave
  /\ UNCHANGED <<db, listVars, selVars, isEditing, inputName, inputNotes,
                 notesFocused, relFormVars, inputTag, issued>>

\* viewTagSelect, a printable key
TagSelectType ==
  /\ state = "viewTagSelect"
  /\ \E c \in TagKeys :
       /\ Len(inputTag) < MaxTagInput
       /\ inputTag' = InsertRune(inputTag, c, 30)
  /\ listTags' = TagListItems(db.People, tempTags, inputTag')
  /\ tagCursor' = 0
  /\ KeyMsg("TagSelectType", 0)
  /\ NoSave
  /\ UNCHANGED <<state, db, listPeople, listRelations, selVars, isEditing,
                 personFormVars, relFormVars, tempTags, issued>>

\* viewTagSelect, "backspace"
TagSelectBackspace ==
  /\ state = "viewTagSelect"
  /\ inputTag' = DeleteCharacterBackward(inputTag)
  /\ listTags' = TagListItems(db.People, tempTags, inputTag')
  /\ tagCursor' = 0
  /\ KeyMsg("TagSelectBackspace", 0)
  /\ NoSave
  /\ UNCHANGED <<state, db, listPeople, listRelations, selVars, isEditing,
                 personFormVars, relFormVars, tempTags, issued>>

\* ------------------------------------------------- 5. confirm delete person
\* the person delete keeping the relations that only end at the person
RelationsWithoutPerson_FromOnly(rels, id) ==
  SelectSeq(rels, LAMBDA r : r.FromID # id)

\* the newRels loop of the person delete
RelationsWithoutPerson(rels, id) ==
  SelectSeq(rels, LAMBDA r : r.FromID # id /\ r.ToID # id)

\* the person delete with its test inverted
PeopleWithoutPerson_Inverted(people, id) ==
  SelectSeq(people, LAMBDA q : q.ID = id)

\* the newPeople loop of the person delete
PeopleWithoutPerson(people, id) ==
  SelectSeq(people, LAMBDA q : q.ID # id)

\* viewConfirmDeletePerson, "y" / "Y"
ConfirmDeletePersonYes ==
  /\ state = "viewConfirmDeletePerson"
  /\ LET id == Deref(selectedPerson).ID
     IN  db' = [db EXCEPT !.Relations = RelationsWithoutPerson(@, id),
                          !.People = PeopleWithoutPerson(@, id)]
  /\ \E outcome \in WriteOutcomes : saveData(db', outcome)
  /\ listPeople' = peopleToItems(db'.People)
  /\ state' = "viewListPeople"
  /\ selectedPerson' = Nil
  /\ KeyMsg("ConfirmDeletePersonYes", 0)
  /\ UNCHANGED <<listRelations, listTags, tagCursor, selectedRel, targetPerson,
                 isEditing, personFormVars, relFormVars, tagVars, issued>>

\* viewConfirmDeletePerson, "n" / "N" / "esc"
ConfirmDeletePersonNo ==
  /\ state = "viewConfirmDeletePerson"
  /\ state' = "viewDetail"
  /\ KeyMsg("ConfirmDeletePersonNo", 0)
  /\ NoSave
  /\ UNCHANGED <<db, listVars, selVars, isEditing, personFormVars, relFormVars,
                 tagVars, issued>>

\* ------------------------------------------------------- 6. relation stuff
\* viewRelationTarget, "esc"
RelationTargetEsc ==
  /\ state = "viewRelationTarget"
  /\ state' = "viewDetail"
  /\ KeyMsg("RelationTargetEsc", 0)
  /\ NoSave
  /\ UNCHANGED <<db, listVars, selVars, isEditing, personFormVars, relFormVars,
                 tagVars, issued>>

\* the target test left out
TargetAccepted_Always(i, sel) == TRUE

\* the test that lets a highlighted person become the target of a relation
TargetAccepted(i, sel) == i.ID # sel.ID

\* viewRelationTarget, "enter": sel is the index of listPeople.SelectedItem(),
\* 0 when there is none
RelationTargetEnter ==
  /\ state = "viewRelationTarget"
  /\ \E sel \in 0..Len(listPeople) :
       /\ IF sel # 0 /\ TargetAccepted(listPeople[sel], Deref(selectedPerson))
          THEN /\ targetPerson' = Ref(listPeople[sel])
               /\ state' = "viewRelationForm"
               /\ isEditing' = FALSE
               /\ relStrFocused' = TRUE
               /\ relDescFocused' = FALSE
               /\ inputRelStr' = SetValue(<<>>, RelStrCharLimit)
               /\ inputRelDesc' = SetValue(<<>>, 0)
          ELSE UNCHANGED <<targetPerson, state, isEditing, relFormVars>>
       /\ KeyMsg("RelationTargetEnter", sel)
  /\ NoSave
  /\ UNCHANGED <<db, listVars, selectedPerson, selectedRel, personFormVars,
                 tagVars, issued>>

\* the edit loop without its ID test and its break
UpdateRelation_All(rels, id, strVal, desc) ==
  [i \in 1..Len(rels) |-> [rels[i] EXCEPT !.Strength = strVal,
                                          !.Description = desc]]

\* the edit loop of the relation form's commit
UpdateRelation(rels, id, strVal, desc) ==
  LET i == IndexOfID(rels, id)
  IN  IF i = 0 THEN rels
      ELSE [rels EXCEPT ![i] = [@ EXCEPT !.Strength = strVal,
                                         !.Description = desc]]

\* the create branch of the relation form's commit; id is uuid.New().String()
CreateRelation(rels, id, from, to, strVal, desc) ==
  Append(rels, Relation(id, from, to, strVal, desc))

\* "esc" going back to the target list
RelationFormEsc_Target ==
  /\ state = "viewRelationForm"
  /\ state' = "viewRelationTarget"
  /\ KeyMsg("RelationFormEsc", 0)
  /\ NoSave
  /\ UNCHANGED <<db, listVars, selVars, isEditing, personFormVars, relFormVars,
                 tagVars, issued>>

\* viewRelationForm, "esc"
RelationFormEsc ==
  /\ state = "viewRelationForm"
  /\ state' = "viewDetail"
  /\ KeyMsg("RelationFormEsc", 0)
  /\ NoSave
  /\ UNCHANGED <<db, listVars, selVars, isEditing, personFormVars, relFormVars,
                 tagVars, issued>>

\* viewRelationForm, "tab"
RelationFormTab ==
  /\ state = "viewRelationForm"
  /\ IF relStrFocused
     THEN relStrFocused' = FALSE /\ relDescFocused' = TRUE
     ELSE relDescFocused' = FALSE /\ relStrFocused' = TRUE
  /\ KeyMsg("RelationFormTab", 0)
  /\ NoSave
  /\ UNCHANGED <<state, db, listVars, selVars, isEditing, personFormVars,
                 inputRelStr, inputRelDesc, tagVars, issued>>

\* viewRelationForm, "enter"
RelationFormEnter ==
  /\ state = "viewRelationForm"
  /\ IF relStrFocused
     THEN /\ relStrFocused' = FALSE
          /\ relDescFocused' = TRUE
          /\ NoSave
          /\ UNCHANGED <<state, db, listRelations, issued>>
     ELSE /\ LET strVal == ClampStrength(Atoi(inputRelStr))
             IN  IF isEditing
                 THEN /\ db' = [db EXCEPT !.Relations =
                                  UpdateRelation(@, Deref(selectedRel).ID, strVal,
                                                 inputRelDesc)]
                      /\ UNCHANGED issued
                 ELSE /\ issued < MaxNew
                      /\ db' = [db EXCEPT !.Relations =
                                  CreateRelation(@, UUIDs[issued + 1],
                                                 Deref(selectedPerson).ID,
                                                 Deref(targetPerson).ID, strVal,
                                                 inputRelDesc)]
                      /\ issued' = issued + 1
          /\ \E outcome \in WriteOutcomes : saveData(db', outcome)
          /\ listRelations' = RelationListItems(db', Deref(selectedPerson))
          /\ state' = "viewDetail"
          /\ UNCHANGED <<relStrFocused, relDescFocused>>
  /\ KeyMsg("RelationFormEnter", 0)
  /\ UNCHANGED <<listPeople, listTags, tagCursor, selVars, isEditing,
                 personFormVars, inputRelStr, inputRelDesc, tagVars>>

\* viewRelationForm, a printable key: both inputs get the message, the
\* focused one takes it
RelationFormType ==
  /\ state = "viewRelationForm"
  /\ \E c \in RelationKeys :
       /\ relDescFocused => Len(inputRelDesc) < MaxText
       /\ inputRelStr' = IF relStrFocused
                         THEN InsertRune(inputRelStr, c, RelStrCharLimit)
                         ELSE inputRelStr
       /\ inputRelDesc' = IF relDescFocused
                          THEN InsertRune(inputRelDesc, c, 0)
                          ELSE inputRelDesc
  /\ KeyMsg("RelationFormType", 0)
  /\ NoSave
  /\ UNCHANGED <<state, db, listVars, selVars, isEditing, personFormVars,
                 relStrFocused, relDescFocused, tagVars, issued>>

\* viewRelationForm, "backspace"
RelationFormBackspace ==
  /\ state = "viewRelationForm"
  /\ inputRelStr' = IF relStrFocused
                    THEN DeleteCharacterBackward(inputRelStr)
                    ELSE inputRelStr
  /\ inputRelDesc' = IF relDescFocused
                     THEN DeleteCharacterBackward(inputRelDesc)
                     ELSE inputRelDesc
  /\ KeyMsg("RelationFormBackspace", 0)
  /\ NoSave
  /\ UNCHANGED <<state, db, listVars, selVars, isEditing, personFormVars,
                 relStrFocused, relDescFocused, tagVars, issued>>

\* the relation delete that drops the first relation of the document
RelationsWithout_First(rels, id) ==
  IF rels = <<>> THEN rels ELSE Tail(rels)

\* the newRels loop of the relation delete
RelationsWithout(rels, id) ==
  SelectSeq(rels, LAMBDA r : r.ID # id)

\* viewConfirmDeleteRelation, "y" / "Y"
ConfirmDeleteRelationYes ==
  /\ state = "viewConfirmDeleteRelation"
  /\ db' = [db EXCEPT !.Relations = RelationsWithout(@, Deref(selectedRel).ID)]
  /\ \E outcome \in WriteOutcomes : saveData(db', outcome)
  /\ listRelations' = RelationListItems(db', Deref(selectedPerson))
  /\ state' = "viewDetail"
  /\ KeyMsg("ConfirmDeleteRelationYes", 0)
  /\ UNCHANGED <<listPeople, listTags, tagCursor, selVars, isEditing,
                 personFormVars, relFormVars, tagVars, issued>>

\* viewConfirmDeleteRelation, "n" / "N" / "esc"
ConfirmDeleteRelationNo ==
  /\ state = "viewConfirmDeleteRelation"
  /\ state' = "viewDetail"
  /\ KeyMsg("ConfirmDeleteRelationNo", 0)
  /\ NoSave
  /\ UNCHANGED <<db, listVars, selVars, isEditing, personFormVars, relFormVars,
                 tagVars, issued>>

\* ---------------------------------------------------------- specification
\* model.Update: one key message, dispatched on m.state
Next ==
  \/ ListPeopleNew
  \/ ListPeopleEnter
  \/ DetailBack
  \/ DetailEditPerson
  \/ DetailManageTags
  \/ DetailDeletePerson
  \/ DetailNewRelation
  \/ DetailEditRelation
  \/ DetailDeleteRelation
  \/ PersonFormEsc
  \/ PersonFormTab
  \/ PersonFormManageTags
  \/ PersonFormEnter
  \/ PersonFormType
  \/ PersonFormBackspace
  \/ TagSelectEsc
  \/ TagSelectMove
  \/ TagSelectEnter
  \/ TagSelectType
  \/ TagSelectBackspace
  \/ ConfirmDeletePersonYes
  \/ ConfirmDeletePersonNo
  \/ RelationTargetEsc
  \/ RelationTargetEnter
  \/ RelationFormEsc
  \/ RelationFormTab
  \/ RelationFormEnter
  \/ RelationFormType
  \/ RelationFormBackspace
  \/ ConfirmDeleteRelationYes
  \/ ConfirmDeleteRelationNo

Spec == Init /\ [][Next]_vars

\* ------------------------------------------------------------------ startup
\* the store files the program is started on
LegacyPeople ==
  <<[id |-> "a", name |-> <<"A">>, notes |-> <<"A">>],
    [id |-> "b", name |-> <<"B">>, notes |-> <<>>, tags |-> <<TagWork>>]>>

LegacyRelations ==
  <<[from_id |-> "a", to_id |-> "b", strength |-> 9, description |-> <<>>],
    [id |-> "r", from_id |-> "b", to_id |-> "a", strength |-> 3,
     description |-> <<>>]>>

StoredVersions ==
  {JSONString("0.0.1"), JSONString(DB_FORMAT_VERSION), JSONNumber(1)}

StoredBodies ==
  {[people |-> <<>>, relations |-> <<>>]}
    \cup [people : {LegacyPeople, StoredPeople},
          relations : {<<>>, StoredRelations, LegacyRelations}]

BootFiles ==
  {NoFile, Unreadable, EmptyFile, Malformed}
    \cup {JSONFile(b) : b \in StoredBodies}
    \cup {JSONFile(SetMember(b, "version", v)) : b \in StoredBodies,
                                                 v \in StoredVersions}

\* the tables migration.migrations can hold: the shipped one, and chains of
\* two transforms of which one may fail
ChainTables ==
  {ShippedMigrations}
    \cup {<<Migration("0.0.0", "0.0.1", a), Migration("0.0.1", "1.0.0", b)>> :
            a \in {"keep", "fail"}, b \in {"migrate_0_0_1_to_1_0_0", "fail"}}

\* the process before main has run, on the store file and under the table
BeforeMain(file, table) ==
  /\ pc = "main"
  /\ migrations = table
  /\ state = "none"
  /\ db = Database(<<>>, <<>>, "")
  /\ disk = file
  /\ disk0 = file
  /\ listPeople = <<>>
  /\ listRelations = <<>>
  /\ listTags = <<>>
  /\ tagCursor = 0
  /\ selectedPerson = Nil
  /\ selectedRel = Nil
  /\ targetPerson = Nil
  /\ isEditing = FALSE
  /\ inputName = <<>>
  /\ inputNotes = <<>>
  /\ nameFocused = FALSE
  /\ notesFocused = FALSE
  /\ inputRelStr = <<>>
  /\ inputRelDesc = <<>>
  /\ relStrFocused = FALSE
  /\ relDescFocused = FALSE
  /\ inputTag = <<>>
  /\ tempTags = <<>>
  /\ issued = 0
  /\ failed = 0
  /\ events = 0
  /\ lastEvent = "start"
  /\ lastSel = 0
  /\ lastWrites = 0
  /\ lastOutcome = "none"

BootInit == \E file \in BootFiles : BeforeMain(file, ShippedMigrations)

ChainInit == \E file \in BootFiles, table \in ChainTables : BeforeMain(file, table)

\* main: migration.RunMigrations(dbPath), and os.Exit(1) when it returns an
\* error
MainRunMigrations ==
  /\ pc = "main"
  /\ \E outcome \in WriteOutcomes :
       LET r == RunMigrations(migrations, disk, outcome)
       IN  /\ r.writes = 0 => outcome = "ok"
           /\ (r.writes = 1 /\ outcome # "ok") => failed < MaxWriteFailures
           /\ pc' = IF r.err THEN "exited" ELSE "migrated"
           /\ disk' = r.file
           /\ failed' = IF r.writes = 1 /\ outcome # "ok" THEN failed + 1 ELSE failed
           /\ lastWrites' = r.writes
           /\ lastOutcome' = IF r.writes = 1 THEN outcome ELSE lastOutcome
  /\ lastEvent' = "RunMigrations"
  /\ UNCHANGED <<migrations, disk0, state, db, listVars, selVars, isEditing,
                 personFormVars, relFormVars, tagVars, issued, events, lastSel>>

\* main: initialModel(dbPath), which calls loadData
MainInitialModel ==
  /\ pc = "migrated"
  /\ \E outcome \in WriteOutcomes :
       LET ld == loadData(disk, issued, outcome)
       IN  /\ ld.writes = 0 => outcome = "ok"
           /\ (ld.writes = 1 /\ outcome # "ok") => failed < MaxWriteFailures
           /\ ld.n <= MaxNew
           /\ pc' = "session"
           /\ state' = "viewListPeople"
           /\ db' = ld.db
           /\ disk' = ld.file
           /\ listPeople' = peopleToItems(ld.db.People)
           /\ listTags' = SortTags(getAllUniqueTags(ld.db.People))
           /\ issued' = ld.n
           /\ failed' = IF ld.writes = 1 /\ outcome # "ok" THEN failed + 1 ELSE failed
           /\ lastWrites' = ld.writes
           /\ lastOutcome' = IF ld.writes = 1 THEN outcome ELSE lastOutcome
  /\ lastEvent' = "initialModel"
  /\ UNCHANGED <<migrations, disk0, listRelations, tagCursor, selVars, isEditing,
                 personFormVars, relFormVars, tagVars, events, lastSel>>

\* the start of the program followed by the first key messages of the session
BootNext ==
  \/ MainRunMigrations
  \/ MainInitialModel
  \/ (events < MaxBootEvents /\ Next)

BootSpec == BootInit /\ [][BootNext]_vars

\* the start of the program under each of the tables
ChainNext ==
  \/ MainRunMigrations
  \/ MainInitialModel

ChainSpec == ChainInit /\ [][ChainNext]_vars

\* ------------------------------------------------- sessions on tagged people
\* tags stored in the files of the tag sessions
TagUpper == <<"W">>
TagLower == <<"w">>
TagOther == <<"A">>

\* the tags of one stored person
StoredTagSets == {<<>>, <<TagWork>>, <<TagOther, TagLower>>, <<TagUpper>>}

\* store files of two people with tags and one relation, whose strength was
\* not written by the relation form
TagFiles ==
  {JSONFile([version |-> JSONString(DB_FORMAT_VERSION),
             people |-> <<[id |-> "a", name |-> <<"A">>, notes |-> <<>>,
                           tags |-> ta],
                          [id |-> "b", name |-> <<"B">>, notes |-> <<>>,
                           tags |-> tb]>>,
             relations |-> <<[id |-> "r", from_id |-> "a", to_id |-> "b",
                              strength |-> 10, description |-> <<"x">>]>>]) :
     ta, tb \in StoredTagSets}

TagInit == \E file \in TagFiles : initialModel(file)

\* the first key messages of a session
TagNext == events < MaxTagEvents /\ Next

TagSpec == TagInit /\ [][TagNext]_vars

\* ================================================================ properties
IDs(s) == {s[i].ID : i \in 1..Len(s)}

\* new is old without exactly the elements that satisfy Gone, the others
\* unchanged and in their order
RemovedExactly(old, new, Gone(_)) ==
  LET K == {k \in 1..Len(old) : ~Gone(old[k])}
      Nth(i) == CHOOSE k \in K : Cardinality({j \in K : j <= k}) = i
  IN  /\ Len(new) = Cardinality(K)
      /\ \A i \in 1..Len(new) : new[i] = old[Nth(i)]

\* C1: the "yes" of the person delete removes the selected person and every
\* relation that has it as an endpoint, keeps every other person and relation
\* unchanged and in order, calls saveData once and returns to the people list
\* with no person selected.
C1_CascadeDelete ==
  [][lastEvent' = "ConfirmDeletePersonYes" =>
       LET id == Deref(selectedPerson).ID
       IN  /\ id \notin IDs(db'.People)
           /\ \A i \in 1..Len(db'.Relations) :
                db'.Relations[i].FromID # id /\ db'.Relations[i].ToID # id
           /\ RemovedExactly(db.People, db'.People, LAMBDA q : q.ID = id)
           /\ RemovedExactly(db.Relations, db'.Relations,
                             LAMBDA r : r.FromID = id \/ r.ToID = id)
           /\ db'.Version = db.Version
           /\ lastWrites' = 1
           /\ state' = "viewListPeople"
           /\ selectedPerson' = Nil]_vars

\* a person was deleted whose relation went with it while a relation between
\* two other people stayed
C1_Witness ==
  /\ lastEvent = "ConfirmDeletePersonYes"
  /\ IDs(db.People) = {"a", "b"}
  /\ IDs(db.Relations) = {"r"}
  /\ \E i \in 1..Len(listRelations) : listRelations[i].Rel.ID \in Range(UUIDs)

\* C2: every relation of the in-memory document has both endpoints among the
\* people of the document.
C2_ReferentialIntegrity ==
  \A i \in 1..Len(db.Relations) :
    /\ db.Relations[i].FromID \in IDs(db.People)
    /\ db.Relations[i].ToID \in IDs(db.People)

\* a person was deleted after a relation had been created in the session
C2_Witness ==
  /\ lastEvent = "ConfirmDeletePersonYes"
  /\ Len(db.People) = 1
  /\ \E i \in 1..Len(listRelations) : listRelations[i].Rel.ID \in Range(UUIDs)

\* a text that is a decimal integer, and its value
IsIntText(s) ==
  /\ s # <<>>
  /\ LET body == IF s[1] = "-" THEN Tail(s) ELSE s
     IN  body # <<>> /\ \A i \in 1..Len(body) : body[i] \in Digits

IntOfText(s) ==
  IF s[1] = "-" THEN 0 - DigitsVal(Tail(s)) ELSE DigitsVal(s)

\* the relation a commit of the relation form created or updated
CommittedRelation(editing, sel, rels) ==
  IF editing THEN rels[IndexOfID(rels, Deref(sel).ID)] ELSE rels[Len(rels)]

\* C3: the relation created or updated by a commit of the relation form has a
\* strength in 1..5: 5 for a typed integer above 5, 1 for one below 1, the
\* typed integer otherwise, also for empty and non-numeric text; no step
\* changes the strength of a relation it does not commit, so a loaded strength
\* stays as loaded.
C3_StrengthClamped ==
  [][/\ (lastEvent' = "RelationFormEnter" /\ lastWrites' = 1
         /\ (isEditing => Deref(selectedRel).ID \in IDs(db.Relations))) =>
          LET st == CommittedRelation(isEditing, selectedRel, db'.Relations).Strength
              typed == inputRelStr
          IN  /\ st \in 1..5
              /\ IsIntText(typed) /\ IntOfText(typed) > 5 => st = 5
              /\ IsIntText(typed) /\ IntOfText(typed) < 1 => st = 1
              /\ IsIntText(typed) /\ IntOfText(typed) \in 1..5 => st = IntOfText(typed)
              /\ ClampStrength(Atoi(<<"7">>)) = 5
              /\ ClampStrength(Atoi(<<"-", "3">>)) = 1
              /\ ClampStrength(Atoi(<<"9">>)) = 5
     /\ \/ db'.Relations = db.Relations
        \/ \A i \in 1..Len(db.Relations), j \in 1..Len(db'.Relations) :
             (/\ db.Relations[i].ID = db'.Relations[j].ID
              /\ ~(/\ lastEvent' = "RelationFormEnter" /\ lastWrites' = 1 /\ isEditing
                   /\ Deref(selectedRel).ID = db.Relations[i].ID))
             => db'.Relations[j].Strength = db.Relations[i].Strength]_vars

\* a relation was created with 9 typed as its strength and stores 5, next to
\* the loaded relation that still has its strength 9
C3_Witness ==
  /\ lastEvent = "RelationFormEnter"
  /\ lastWrites = 1
  /\ inputRelStr = <<"9">>
  /\ \E i \in 1..Len(db.Relations) :
       db.Relations[i].ID = "r" /\ db.Relations[i].Strength = 9
  /\ \E i \in 1..Len(db.Relations) :
       db.Relations[i].ID \in Range(UUIDs) /\ db.Relations[i].Strength = 5

\* C4: "enter" in the target list on the selected person itself changes
\* nothing (no target, no transition, no write), and no step adds a relation
\* whose two endpoints are the same person.
C4_NoSelfLoop ==
  [][/\ (/\ lastEvent' = "RelationTargetEnter"
         /\ lastSel' # 0
         /\ listPeople[lastSel'].ID = Deref(selectedPerson).ID) =>
          /\ state' = "viewRelationTarget"
          /\ targetPerson' = targetPerson
          /\ db' = db
          /\ disk' = disk
          /\ lastWrites' = 0
     /\ \A j \in 1..Len(db'.Relations) :
          db'.Relations[j].ID \notin IDs(db.Relations) =>
            db'.Relations[j].FromID # db'.Relations[j].ToID]_vars

\* the selected person was highlighted in the target list and "enter" pressed
C4_Witness ==
  /\ lastEvent = "RelationTargetEnter"
  /\ lastSel # 0
  /\ state = "viewRelationTarget"
  /\ listPeople[lastSel].ID = Deref(selectedPerson).ID

\* C5: a handler that changes the document calls saveData once in the same
\* step, each committing event does, a handler that does not call saveData
\* leaves document and store alone, a successful write leaves the whole
\* in-memory document in the store, and while no write has failed the store
\* holds the in-memory document after every mutation.
C5_PersistAfterMutation ==
  [][/\ db' # db => lastWrites' = 1
     /\ (\/ lastEvent' = "PersonFormEnter" /\ ~nameFocused
         \/ lastEvent' = "RelationFormEnter" /\ ~relStrFocused
         \/ lastEvent' = "ConfirmDeletePersonYes"
         \/ lastEvent' = "ConfirmDeleteRelationYes") => lastWrites' = 1
     /\ lastWrites' = 0 => db' = db /\ disk' = disk
     /\ (lastWrites' = 1 /\ lastOutcome' = "ok") => disk' = JSONFile(Marshal(db'))
     /\ (failed' = 0 /\ lastOutcome' = "ok") => disk' = JSONFile(Marshal(db'))]_vars

\* two mutations, a created relation and then its delete, both written
C5_Witness ==
  /\ lastEvent = "ConfirmDeleteRelationYes"
  /\ failed = 0
  /\ issued = 1
  /\ lastOutcome = "ok"
  /\ IDs(db.Relations) = {"u1"}
  /\ disk = JSONFile(Marshal(db))

\* C6: a commit of the creating person form with the notes field focused
\* appends one Person that has the buffers' name, notes and tags and a
\* non-empty ID no other Person has; the People before it and the Relations
\* are unchanged, saveData is called, and the next state is the people list.
C6_CreatePerson ==
  [][(/\ lastEvent' = "PersonFormEnter"
      /\ ~isEditing
      /\ notesFocused) =>
       LET n == Len(db.People)
       IN  /\ Len(db'.People) = n + 1
           /\ SubSeq(db'.People, 1, n) = db.People
           /\ db'.People[n + 1].Name = inputName
           /\ db'.People[n + 1].Notes = inputNotes
           /\ db'.People[n + 1].Tags = tempTags
           /\ db'.People[n + 1].ID # ""
           /\ db'.People[n + 1].ID \notin IDs(db.People)
           /\ db'.Relations = db.Relations
           /\ lastWrites' = 1
           /\ state' = "viewListPeople"]_vars

\* from the empty store, a person named A was created without tags
C6_Witness ==
  /\ lastEvent = "PersonFormEnter"
  /\ lastWrites = 1
  /\ state = "viewListPeople"
  /\ Len(db.People) = 1
  /\ db.People[1].Name = <<"A">>
  /\ db.People[1].Tags = <<>>
  /\ db.People[1].ID # ""
  /\ db.Relations = <<>>

\* C7: after a person is created and the write succeeded, loadData on the
\* written file returns a Database with a Person equal to the created one in
\* ID, name, notes and tags, whose ID is non-empty and no other Person's.
C7_CreateLoadRoundTrip ==
  [][(/\ lastEvent' = "PersonFormEnter"
      /\ ~isEditing
      /\ lastWrites' = 1
      /\ lastOutcome' = "ok") =>
       LET created == db'.People[Len(db'.People)]
           loaded == loadData(disk', issued', "ok").db.People
       IN  /\ \E i \in 1..Len(loaded) :
                /\ loaded[i].ID = created.ID
                /\ loaded[i].Name = created.Name
                /\ loaded[i].Notes = created.Notes
                /\ loaded[i].Tags = created.Tags
           /\ created.ID # ""
           /\ Cardinality({i \in 1..Len(loaded) : loaded[i].ID = created.ID}) = 1]_vars

\* a third person with a name and a tag was created and written
C7_Witness ==
  /\ lastEvent = "PersonFormEnter"
  /\ ~isEditing
  /\ lastWrites = 1
  /\ lastOutcome = "ok"
  /\ Len(db.People) = 3
  /\ db.People[3].Name = <<"A">>
  /\ db.People[3].Tags = <<TagWork>>

\* C8: a commit of the editing person form overwrites name, notes and tags of
\* the Person that has the selected person's ID with the buffers; its ID and
\* index, every other Person and every Relation are unchanged, and the next
\* state is the detail view of the updated Person.  With an ID no Person has
\* the People are unchanged.
C8_UpdatePersonFrame ==
  [][/\ (/\ lastEvent' = "PersonFormEnter"
         /\ isEditing
         /\ ~nameFocused) =>
          LET id == Deref(selectedPerson).ID
              K == {k \in 1..Len(db.People) : db.People[k].ID = id}
          IN  IF K = {} THEN db' = db
              ELSE /\ Cardinality(K) = 1
                   /\ Len(db'.People) = Len(db.People)
                   /\ \A k \in 1..Len(db.People) :
                        db'.People[k] =
                          IF k \in K
                          THEN [ID |-> id, Name |-> inputName,
                                Notes |-> inputNotes, Tags |-> tempTags]
                          ELSE db.People[k]
                   /\ db'.Relations = db.Relations
                   /\ state' = "viewDetail"
                   /\ \A k \in K : selectedPerson' = Ref(db'.People[k])
     /\ UpdatePerson(db.People, "", inputName, inputNotes, tempTags) = db.People]_vars

\* the second person of the stored document was renamed, the first is as stored
C8_Witness ==
  /\ lastEvent = "PersonFormEnter"
  /\ isEditing
  /\ lastWrites = 1
  /\ state = "viewDetail"
  /\ Len(db.People) = 2
  /\ db.People[1].Name = <<"A">>
  /\ db.People[2].ID = "b"
  /\ db.People[2].Name = <<>>
  /\ Deref(selectedPerson) = db.People[2]

\* C9: a commit of the editing relation form sets the clamped strength and the
\* description of the Relation that has the selected relation's ID; its ID,
\* FromID and ToID, every other Relation and every Person are unchanged, and
\* the next state is the detail view.  With an ID no Relation has the
\* Relations are unchanged.
C9_UpdateRelationFrame ==
  [][/\ (/\ lastEvent' = "RelationFormEnter"
         /\ isEditing
         /\ ~relStrFocused) =>
          LET id == Deref(selectedRel).ID
              K == {k \in 1..Len(db.Relations) : db.Relations[k].ID = id}
          IN  /\ IF K = {} THEN db' = db
                 ELSE /\ Cardinality(K) = 1
                      /\ Len(db'.Relations) = Len(db.Relations)
                      /\ \A k \in 1..Len(db.Relations) :
                           IF k \in K
                           THEN /\ db'.Relations[k].ID = id
                                /\ db'.Relations[k].FromID = db.Relations[k].FromID
                                /\ db'.Relations[k].ToID = db.Relations[k].ToID
                                /\ db'.Relations[k].Strength \in 1..5
                                /\ db'.Relations[k].Description = inputRelDesc
                           ELSE db'.Relations[k] = db.Relations[k]
                      /\ db'.People = db.People
                      /\ db'.Version = db.Version
              /\ state' = "viewDetail"
     /\ UpdateRelation(db.Relations, "", 3, inputRelDesc) = db.Relations]_vars

\* one of two relations was given the description x, the other is unchanged
C9_Witness ==
  /\ lastEvent = "RelationFormEnter"
  /\ isEditing
  /\ lastWrites = 1
  /\ Len(db.Relations) = 2
  /\ \E i, j \in 1..2 :
       /\ i # j
       /\ db.Relations[i].Description = <<"x">>
       /\ db.Relations[j].Description = <<>>

\* C10: the "yes" of the relation delete removes the one Relation that has the
\* selected relation's ID, keeps the other Relations in their order and all
\* People, calls saveData, refreshes the relation list of the detail view,
\* which no longer has the removed relation, and returns to the detail view.
C10_DeleteRelation ==
  [][lastEvent' = "ConfirmDeleteRelationYes" =>
       LET id == Deref(selectedRel).ID
           me == Deref(selectedPerson').ID
           touching == {k \in 1..Len(db'.Relations) :
                          db'.Relations[k].FromID = me \/ db'.Relations[k].ToID = me}
       IN  /\ Cardinality({k \in 1..Len(db.Relations) : db.Relations[k].ID = id}) = 1
           /\ RemovedExactly(db.Relations, db'.Relations, LAMBDA r : r.ID = id)
           /\ db'.People = db.People
           /\ lastWrites' = 1
           /\ \A i \in 1..Len(listRelations') : listRelations'[i].Rel.ID # id
           /\ {listRelations'[i].Rel : i \in 1..Len(listRelations')}
                = {db'.Relations[k] : k \in touching}
           /\ Len(listRelations') = Cardinality(touching)
           /\ state' = "viewDetail"]_vars

\* the second of two relations was deleted, the first is still listed
C10_Witness ==
  /\ lastEvent = "ConfirmDeleteRelationYes"
  /\ state = "viewDetail"
  /\ issued = 1
  /\ IDs(db.Relations) = {"r"}
  /\ Len(listRelations) = 1

\* C11: "enter" in the person form with the name focused, and in the relation
\* form with the strength focused, only moves the focus to the second field:
\* view, document, file, buffers and selections stay and saveData is not
\* called.  A step taken in a form that calls saveData or changes the document
\* is an "enter" with the second field focused and the first not, and every
\* such "enter" calls saveData once and leaves the form.
C11_TwoStageCommit ==
  [][/\ (lastEvent' = "PersonFormEnter" /\ nameFocused) =>
          /\ ~nameFocused' /\ notesFocused'
          /\ lastWrites' = 0
          /\ UNCHANGED <<state, db, disk, listVars, selVars, isEditing, inputName,
                         inputNotes, relFormVars, tagVars, issued>>
     /\ (lastEvent' = "RelationFormEnter" /\ relStrFocused) =>
          /\ ~relStrFocused' /\ relDescFocused'
          /\ lastWrites' = 0
          /\ UNCHANGED <<state, db, disk, listVars, selVars, isEditing, inputRelStr,
                         inputRelDesc, personFormVars, tagVars, issued>>
     /\ (state = "viewPersonForm" /\ (lastWrites' # 0 \/ db' # db \/ disk' # disk)) =>
          lastEvent' = "PersonFormEnter" /\ notesFocused /\ ~nameFocused
     /\ (state = "viewRelationForm" /\ (lastWrites' # 0 \/ db' # db \/ disk' # disk)) =>
          lastEvent' = "RelationFormEnter" /\ relDescFocused /\ ~relStrFocused
     /\ (lastEvent' = "PersonFormEnter" /\ ~nameFocused) =>
          notesFocused /\ lastWrites' = 1 /\ state' # "viewPersonForm"
     /\ (lastEvent' = "RelationFormEnter" /\ ~relStrFocused) =>
          relDescFocused /\ lastWrites' = 1 /\ state' = "viewDetail"]_vars

\* a relation was committed by the second "enter" of the relation form after a
\* person had been committed by the second "enter" of the person form
C11_Witness ==
  /\ lastEvent = "RelationFormEnter"
  /\ lastWrites = 1
  /\ relDescFocused /\ ~relStrFocused
  /\ notesFocused /\ ~nameFocused
  /\ \E i \in 1..Len(db.People) : db.People[i].ID \in Range(UUIDs)

\* C12: in the person form exactly one of the name and notes inputs is
\* focused, and in the relation form exactly one of the strength and
\* description inputs is focused.
C12_ExactlyOneFocused ==
  /\ state = "viewPersonForm" => (nameFocused # notesFocused)
  /\ state = "viewRelationForm" => (relStrFocused # relDescFocused)

\* C13: "esc" in the person form leaves to the detail view when editing and
\* to the people list otherwise; "esc" in the target list and in the relation
\* form, and "n" / "esc" in the two delete confirmations, leave to the detail
\* view; none of these steps calls saveData or changes the document, the
\* file or the selected person, so no buffer value reaches the document.
C13_CancelNoOp ==
  [][/\ lastEvent' = "PersonFormEsc" =>
          state' = IF isEditing THEN "viewDetail" ELSE "viewListPeople"
     /\ lastEvent' \in {"RelationTargetEsc", "RelationFormEsc",
                        "ConfirmDeletePersonNo", "ConfirmDeleteRelationNo"} =>
          state' = "viewDetail"
     /\ lastEvent' \in {"PersonFormEsc", "RelationTargetEsc", "RelationFormEsc",
                        "ConfirmDeletePersonNo", "ConfirmDeleteRelationNo"} =>
          /\ lastWrites' = 0
          /\ UNCHANGED <<db, disk, selectedPerson, listPeople, listRelations>>]_vars

\* the edit of a person was cancelled with a name typed that the document
\* does not have
C13_Witness ==
  /\ lastEvent = "PersonFormEsc"
  /\ state = "viewDetail"
  /\ isEditing
  /\ inputName # Deref(selectedPerson).Name
  /\ \A i \in 1..Len(db.People) : db.People[i].Name # inputName

\* the people of a json document
PeopleOf(doc) == Member(doc, "people", <<>>)

\* C14: RunMigrations on a document whose version is "0.0.1" writes the store
\* once; when the write succeeds the stored document has version "1.0.0",
\* every person that had no tags has tags = [], every person that had tags is
\* unchanged, no other member of a person changes, the people keep their
\* order, the relations and every other member of the document are unchanged
\* and the start goes on; when the write fails the program exits, and the
\* file is as before if the write could not open it.
C14_MigrateLegacy ==
  [][(/\ lastEvent' = "RunMigrations"
      /\ disk.kind = "json"
      /\ "version" \in DOMAIN disk.doc
      /\ disk.doc.version = JSONString("0.0.1")) =>
       /\ lastWrites' = 1
       /\ IF lastOutcome' = "ok"
          THEN LET old == disk.doc
                   new == disk'.doc
               IN  /\ pc' = "migrated"
                   /\ disk'.kind = "json"
                   /\ new.version = JSONString("1.0.0")
                   /\ DOMAIN new = DOMAIN old
                   /\ \A k \in DOMAIN old \ {"version", "people"} : new[k] = old[k]
                   /\ Len(PeopleOf(new)) = Len(PeopleOf(old))
                   /\ \A i \in 1..Len(PeopleOf(old)) :
                        LET p == PeopleOf(old)[i]
                            q == PeopleOf(new)[i]
                        IN  /\ DOMAIN q = DOMAIN p \cup {"tags"}
                            /\ \A k \in DOMAIN p : q[k] = p[k]
                            /\ "tags" \notin DOMAIN p => q.tags = <<>>
          ELSE pc' = "exited" /\ (lastOutcome' = "fail" => disk' = disk)]_vars

\* a legacy document was migrated: the first person got the empty tag list,
\* the second person kept its tag
C14_Witness ==
  /\ lastEvent = "RunMigrations"
  /\ pc = "migrated"
  /\ lastWrites = 1
  /\ disk.kind = "json"
  /\ disk.doc.version = JSONString("1.0.0")
  /\ Len(disk.doc.people) = 2
  /\ disk.doc.people[1].notes = <<"A">>
  /\ disk.doc.people[1].tags = <<>>
  /\ disk.doc.people[2].tags = <<TagWork>>

\* the version the last transform of the table migrates to
LatestVersion(migs) == migs[Len(migs)].ToVersion

\* C15: RunMigrations on a document that is at the current version applies no
\* transform, writes nothing, leaves the file as it is and returns no error;
\* after every run of RunMigrations whose write did not fail, a second run
\* writes nothing and leaves the file as the first run left it.
C15_MigratorIdempotent ==
  [][lastEvent' = "RunMigrations" =>
       /\ (/\ disk.kind = "json"
           /\ VersionOf(disk.doc) \in {DB_FORMAT_VERSION, LatestVersion(migrations)}) =>
            disk' = disk /\ lastWrites' = 0 /\ pc' = "migrated"
       /\ ~(lastWrites' = 1 /\ lastOutcome' # "ok") =>
            \A o \in WriteOutcomes :
              LET again == RunMigrations(migrations, disk', o)
              IN  /\ again.file = disk'
                  /\ again.writes = 0
                  /\ again.applied = 0
                  /\ again.err = (pc' = "exited")]_vars

\* RunMigrations has run on a document of two people that is at the current
\* version
C15_Witness ==
  /\ lastEvent = "RunMigrations"
  /\ pc = "migrated"
  /\ lastWrites = 0
  /\ disk.kind = "json"
  /\ VersionOf(disk.doc) = LatestVersion(migrations)
  /\ Len(disk.doc.people) = 2

\* C16: RunMigrations on a document without a version member leaves a
\* document at version "1.0.0" in which every person has tags.
C16_MissingVersionMigrates ==
  [][(/\ lastEvent' = "RunMigrations"
      /\ disk.kind = "json"
      /\ "version" \notin DOMAIN disk.doc) =>
       /\ disk'.kind = "json"
       /\ VersionOf(disk'.doc) = "1.0.0"
       /\ \A i \in 1..Len(PeopleOf(disk'.doc)) :
            "tags" \in DOMAIN PeopleOf(disk'.doc)[i]]_vars

\* C17: RunMigrations on a document at the current version and on a file of
\* zero bytes returns no error, writes nothing and the start goes on.
C17_NoTransformNoOp ==
  [][(/\ lastEvent' = "RunMigrations"
      /\ \/ disk.kind = "empty"
         \/ /\ disk.kind = "json"
            /\ VersionOf(disk.doc) \in {DB_FORMAT_VERSION, LatestVersion(migrations)}) =>
       /\ pc' = "migrated"
       /\ disk' = disk
       /\ lastWrites' = 0]_vars

\* the Database loadData returns when it cannot open the file
EmptyDatabase == Database(<<>>, <<>>, DB_FORMAT_VERSION)

\* C18: on an absent file RunMigrations returns no error and creates
\* nothing; initialModel then loads the empty Database at the current version,
\* creates nothing and starts in the people list with no people; the file
\* stays absent until a handler changes the document and its write opens
\* the file, and a write that succeeds leaves the marshalled document in it;
\* while the file is absent and no write has failed the document is still the
\* empty one.
C18_AbsentStore ==
  [][/\ (lastEvent' = "RunMigrations" /\ disk = NoFile) =>
          pc' = "migrated" /\ disk' = NoFile /\ lastWrites' = 0
     /\ (lastEvent' = "initialModel" /\ disk = NoFile) =>
          /\ pc' = "session"
          /\ db' = EmptyDatabase
          /\ disk' = NoFile
          /\ lastWrites' = 0
          /\ state' = "viewListPeople"
          /\ listPeople' = <<>>
     /\ (disk = NoFile /\ disk' # NoFile) =>
          /\ pc = "session"
          /\ db' # db
          /\ lastWrites' = 1 /\ lastOutcome' # "fail"
          /\ lastOutcome' = "ok" => disk' = JSONFile(Marshal(db'))
     /\ (disk = NoFile /\ pc = "session" /\ db' # db /\ failed' = failed) =>
          disk' = JSONFile(Marshal(db'))
     /\ (disk' = NoFile /\ pc' = "session" /\ failed' = 0) => db' = EmptyDatabase]_vars

\* the first person was created and the file holds exactly that person
C18_Witness ==
  /\ pc = "session"
  /\ lastEvent = "PersonFormEnter"
  /\ failed = 0
  /\ issued = 1
  /\ IDs(db.People) = {"u1"}
  /\ db.Relations = <<>>
  /\ disk = JSONFile(Marshal(db))

\* whether the chain of transforms that starts at the version ver reaches a
\* transform that returns an error
RECURSIVE ChainFails(_, _)
ChainFails(migs, ver) ==
  LET found == FoundMigration(migs, ver)
  IN  /\ found # Nil
      /\ \/ Deref(found).Apply = "fail"
         \/ ChainFails(migs, Deref(found).ToVersion)

\* C19: when a transform of the chain returns an error, RunMigrations
\* returns an error without writing: the file is as it was, also when earlier
\* transforms of the chain succeeded, and the program exits with no session
\* state; an exited program takes no further step.
C19_TransformFailureFatal ==
  [][/\ (/\ lastEvent' = "RunMigrations"
         /\ disk.kind = "json"
         /\ ChainFails(migrations, VersionOf(disk.doc))) =>
          /\ pc' = "exited"
          /\ disk' = disk
          /\ lastWrites' = 0
          /\ state' = "none"
          /\ db' = Database(<<>>, <<>>, "")
     /\ pc = "exited" => (pc' = "exited" /\ disk' = disk /\ state' = "none")]_vars

\* the second transform of a chain failed after the first had succeeded, on a
\* document without a version
C19_Witness ==
  /\ pc = "exited"
  /\ lastEvent = "RunMigrations"
  /\ lastWrites = 0
  /\ Len(migrations) = 2
  /\ migrations[1].Apply = "keep"
  /\ migrations[2].Apply = "fail"
  /\ disk.kind = "json"
  /\ "version" \notin DOMAIN disk.doc
  /\ Len(PeopleOf(disk.doc)) = 2

\* C20: when the file cannot be read or does not decode, loadData returns the
\* Database with no People, no Relations and the current version, and
\* writes nothing.
C20_LoadSilentRecovery ==
  [][(/\ lastEvent' = "initialModel"
      /\ \/ disk.kind \in {"absent", "unreadable"}
         \/ UnmarshalFails(disk)) =>
       /\ db' = EmptyDatabase
       /\ disk' = disk
       /\ lastWrites' = 0]_vars

\* C21: when the file exists but cannot be read or is not json, the start
\* reports no error: RunMigrations returns none, and initialModel then starts
\* the session in the people list with a document without people and
\* relations.
C21_MalformedStoreRecovered ==
  [][/\ (lastEvent' = "RunMigrations" /\ disk.kind \in {"unreadable", "malformed"}) =>
          pc' = "migrated"
     /\ (lastEvent' = "initialModel" /\ disk.kind \in {"unreadable", "malformed"}) =>
          /\ pc' = "session"
          /\ state' = "viewListPeople"
          /\ db'.People = <<>>
          /\ db'.Relations = <<>>]_vars

\* the relations of a json document
RelationsOf(doc) == Member(doc, "relations", <<>>)

\* whether a stored relation has a non-empty id
HasID(o) == "id" \in DOMAIN o /\ o.id # ""

\* C22: initialModel on a json file returns a document whose relations all
\* have a non-empty ID: a stored relation with an id keeps it, one without
\* gets an identifier not handed out before and unlike every other ID; the
\* other fields of the relations and the people are as stored; the file is
\* written iff some stored relation had no id, and a write that succeeds
\* leaves the returned document in the file (a write that could not open the
\* file leaves it as it was).
C22_BackfillIDs ==
  [][(lastEvent' = "initialModel" /\ disk.kind = "json") =>
       LET rs == RelationsOf(disk.doc)
           ps == PeopleOf(disk.doc)
           new == db'.Relations
       IN  /\ Len(new) = Len(rs)
           /\ \A i \in 1..Len(rs) :
                /\ new[i].ID # ""
                /\ HasID(rs[i]) => new[i].ID = rs[i].id
                /\ ~HasID(rs[i]) =>
                     /\ \E k \in (issued + 1)..issued' : new[i].ID = UUIDs[k]
                     /\ \A j \in 1..Len(rs) : j # i => new[j].ID # new[i].ID
                /\ new[i].FromID = rs[i].from_id
                /\ new[i].ToID = rs[i].to_id
                /\ new[i].Strength = rs[i].strength
                /\ new[i].Description = rs[i].description
           /\ Len(db'.People) = Len(ps)
           /\ \A i \in 1..Len(ps) :
                /\ db'.People[i].ID = ps[i].id
                /\ db'.People[i].Name = ps[i].name
                /\ db'.People[i].Notes = ps[i].notes
                /\ db'.People[i].Tags = Member(ps[i], "tags", <<>>)
           /\ (lastWrites' = 1) = (\E i \in 1..Len(rs) : ~HasID(rs[i]))
           /\ lastWrites' \in {0, 1}
           /\ lastWrites' = 0 => disk' = disk
           /\ lastWrites' = 1 =>
                IF lastOutcome' = "ok"
                THEN disk' = JSONFile(Marshal(db')) /\ Unmarshal(disk') = db'
                ELSE lastOutcome' = "fail" => disk' = disk]_vars

\* a document was loaded whose first relation had no id and got one, whose
\* second relation kept its id, and the file holds the loaded document
C22_Witness ==
  /\ lastEvent = "initialModel"
  /\ lastWrites = 1
  /\ lastOutcome = "ok"
  /\ Len(db.Relations) = 2
  /\ db.Relations[1].ID = "u1"
  /\ db.Relations[2].ID = "r"
  /\ disk = JSONFile(Marshal(db))

\* C23: after an initialModel whose loadData gave out identifiers and wrote
\* the file successfully, loadData on the file it left hands out no
\* identifier, writes nothing, leaves the file and returns the document the
\* first call returned.
C23_BackfillIdempotent ==
  [][(lastEvent' = "initialModel" /\ lastWrites' = 1 /\ lastOutcome' = "ok") =>
       /\ issued' > issued
       /\ \A o \in WriteOutcomes :
            LET again == loadData(disk', issued', o)
            IN  /\ again.n = issued'
                /\ again.writes = 0
                /\ again.file = disk'
                /\ again.db = db']_vars

\* a document with a relation without id was loaded, written back, and loads
\* again as the same document
C23_Witness ==
  /\ lastEvent = "initialModel"
  /\ lastWrites = 1
  /\ lastOutcome = "ok"
  /\ issued = 1
  /\ \E i \in 1..Len(disk.doc.relations) : disk.doc.relations[i].id = "u1"
  /\ loadData(disk, issued, "ok").db = db

\* whether a stored document has a person without tags or a relation
\* without id
LacksTagsOrIDs(doc) ==
  \/ \E i \in 1..Len(PeopleOf(doc)) : "tags" \notin DOMAIN PeopleOf(doc)[i]
  \/ \E i \in 1..Len(RelationsOf(doc)) : ~HasID(RelationsOf(doc)[i])

\* C24: when the program was started on a document of the legacy version
\* "0.0.1" with a person without tags or a relation without id, and no write
\* fails, RunMigrations and initialModel together write the file exactly
\* once, and the file then has tags on every person and an id on every
\* relation.
C24_LegacyWritesOnce ==
  [][(/\ lastEvent' = "initialModel"
      /\ disk0.kind = "json"
      /\ VersionOf(disk0.doc) = "0.0.1"
      /\ LacksTagsOrIDs(disk0.doc)
      /\ failed' = 0) =>
       /\ lastWrites + lastWrites' = 1
       /\ disk'.kind = "json"
       /\ ~LacksTagsOrIDs(disk'.doc)]_vars

\* the Database a start of the program would load from the file
StoredDatabase(file) == loadData(file, 0, "ok").db

\* C25: a form commit or a confirmed delete whose store write fails enters
\* no state but the one it enters on success, keeps the change of the
\* in-memory document and leaves the file with its previous content, so that
\* a document that was changed is no longer the stored one.
C25_WriteFailureUnchecked ==
  [][(pc = "session" /\ lastWrites' = 1 /\ lastOutcome' # "ok") =>
       /\ lastEvent' \in {"PersonFormEnter", "RelationFormEnter",
                          "ConfirmDeletePersonYes", "ConfirmDeleteRelationYes"}
       /\ lastEvent' = "PersonFormEnter" =>
            /\ state' = IF isEditing THEN "viewDetail" ELSE "viewListPeople"
            /\ db'.People =
                 IF isEditing
                 THEN UpdatePerson(db.People, Deref(selectedPerson).ID,
                                   inputName, inputNotes, tempTags)
                 ELSE CreatePerson(db.People, UUIDs[issued + 1], inputName,
                                   inputNotes, tempTags)
       /\ lastEvent' = "RelationFormEnter" =>
            /\ state' = "viewDetail"
            /\ isEditing => \E i \in 1..Len(db'.Relations) :
                               /\ db'.Relations[i].ID = Deref(selectedRel).ID
                               /\ db'.Relations[i].Description = inputRelDesc
            /\ ~isEditing => Len(db'.Relations) = Len(db.Relations) + 1
       /\ lastEvent' = "ConfirmDeletePersonYes" =>
            /\ state' = "viewListPeople"
            /\ \A i \in 1..Len(db'.People) :
                 db'.People[i].ID # Deref(selectedPerson).ID
       /\ lastEvent' = "ConfirmDeleteRelationYes" =>
            /\ state' = "viewDetail"
            /\ \A i \in 1..Len(db'.Relations) :
                 db'.Relations[i].ID # Deref(selectedRel).ID
       /\ disk' = disk
       /\ (StoredDatabase(disk) = db /\ db' # db) => StoredDatabase(disk') # db']_vars

\* the tags of all people of the document together with the pending tags
TagPool == UNION {Range(db.People[i].Tags) : i \in 1..Len(db.People)}
             \cup Range(tempTags)

\* t has a substring that is text up to the case of its letters
ContainsFold(t, text) ==
  \E i \in 0..Len(t), j \in 0..Len(t) :
    i <= j /\ ToLower(SubSeq(t, i + 1, j)) = ToLower(text)

\* C26: while the tag view is shown its list holds exactly the tags of the
\* pool (tags of all people and pending tags) that contain the trimmed search
\* text up to case, each once, in ascending order; with an empty search text
\* it holds the whole pool.
C26_TagFilter ==
  state = "viewTagSelect" =>
    /\ Range(listTags) = {t \in TagPool : ContainsFold(t, TrimSpace(inputTag))}
    /\ \A i, j \in 1..Len(listTags) : i < j => StrLess(listTags[i], listTags[j])
    /\ TrimSpace(inputTag) = <<>> => Range(listTags) = TagPool

\* the search text "W" on the pool {A, w, work}: the list is w, work
C26_Witness ==
  /\ state = "viewTagSelect"
  /\ inputTag = <<"W">>
  /\ TagPool = {TagOther, TagLower, TagWork}
  /\ tempTags = <<TagOther, TagLower>>
  /\ listTags = <<TagLower, TagWork>>

\* no tag of the buffer is empty or there twice
CleanTags(tags) ==
  /\ \A i \in 1..Len(tags) : tags[i] # <<>>
  /\ \A i, j \in 1..Len(tags) : i # j => tags[i] # tags[j]

\* C27: the "enter" of the tag view resolves to the highlighted entry of the
\* list when the list has entries and to the trimmed search text otherwise;
\* the resolved tag is appended to the pending tags iff it is not empty and
\* not among them as written, otherwise the pending tags are unchanged; the
\* next state is the person form; pending tags without an empty or a double
\* tag stay so.
C27_TagSelectCommit ==
  [][lastEvent' = "TagSelectEnter" =>
       LET resolved == IF listTags # <<>>
                       THEN listTags[tagCursor + 1]
                       ELSE TrimSpace(inputTag)
       IN  /\ listTags # <<>> => tagCursor \in 0..(Len(listTags) - 1)
           /\ tempTags' = IF resolved # <<>> /\ resolved \notin Range(tempTags)
                          THEN tempTags \o <<resolved>>
                          ELSE tempTags
           /\ state' = "viewPersonForm"
           /\ CleanTags(tempTags) => CleanTags(tempTags')]_vars

\* the second entry of the list was highlighted and appended to the pending
\* tag W, from which it differs only in case
C27_Witness ==
  /\ lastEvent = "TagSelectEnter"
  /\ state = "viewPersonForm"
  /\ tagCursor = 1
  /\ tempTags = <<TagUpper, TagLower>>
  /\ listTags[2] = TagLower

\* C28: in the detail view the relation list has exactly one entry for each
\* relation of the document that starts or ends at the selected person and no
\* other entry; the entry of a relation that starts at the person has the
\* direction "->", any other "<-", and its other name is the name of the
\* person at the other end. Every way into the detail view keeps this: the
\* "enter" of the people list and each relation create, edit and delete
\* compute the list anew.
C28_RelationsFor ==
  state = "viewDetail" =>
    LET p == Deref(selectedPerson)
        T == {k \in 1..Len(db.Relations) :
                db.Relations[k].FromID = p.ID \/ db.Relations[k].ToID = p.ID}
    IN  /\ Len(listRelations) = Cardinality(T)
        /\ \A k \in T :
             Cardinality({i \in 1..Len(listRelations) :
                            listRelations[i].Rel = db.Relations[k]}) = 1
        /\ \A i \in 1..Len(listRelations) :
             LET it == listRelations[i]
                 other == IF it.Rel.FromID = p.ID THEN it.Rel.ToID
                          ELSE it.Rel.FromID
             IN  /\ \E k \in T : it.Rel = db.Relations[k]
                 /\ it.Direction = IF it.Rel.FromID = p.ID THEN "->" ELSE "<-"
                 /\ \E j \in 1..Len(db.People) :
                      /\ db.People[j].ID = other
                      /\ db.People[j].Name = it.OtherName

\* after the create of a relation from b to a, the list of b has the stored
\* relation as incoming and the new one as outgoing, both naming A
C28_Witness ==
  /\ state = "viewDetail"
  /\ lastEvent = "RelationFormEnter"
  /\ Deref(selectedPerson).ID = "b"
  /\ Len(listRelations) = 2
  /\ listRelations[1].Direction = "<-"
  /\ listRelations[2].Direction = "->"
  /\ listRelations[1].OtherName = <<"A">>
  /\ listRelations[2].OtherName = <<"A">>
  /\ Len(db.Relations) = 2

\* the person of the document that has the ID of the selected person
StoredPerson == db.People[IndexOfID(db.People, Deref(selectedPerson).ID)]

\* C29: the "n" of the people list opens the person form for a new person
\* with empty name, notes and pending tags; "E" and "ctrl+g" of the detail
\* view open the person form and the tag view for an edit with the name, the
\* notes and the tags the selected person has in the document; the "enter"
\* of the target list opens the relation form for a new relation with empty
\* strength and description; "e" of the detail view opens it for an edit
\* with the description and the strength the highlighted relation has in the
\* document.
C29_BuffersSeeded ==
  [][/\ lastEvent' = "ListPeopleNew" =>
          /\ state' = "viewPersonForm" /\ ~isEditing'
          /\ inputName' = <<>> /\ inputNotes' = <<>> /\ tempTags' = <<>>
     /\ lastEvent' \in {"DetailEditPerson", "DetailManageTags"} =>
          /\ state' = IF lastEvent' = "DetailEditPerson"
                      THEN "viewPersonForm" ELSE "viewTagSelect"
          /\ isEditing'
          /\ inputName' = StoredPerson.Name
          /\ inputNotes' = StoredPerson.Notes
          /\ tempTags' = StoredPerson.Tags
     /\ (lastEvent' = "RelationTargetEnter" /\ state' = "viewRelationForm") =>
          ~isEditing' /\ inputRelStr' = <<>> /\ inputRelDesc' = <<>>
     /\ (lastEvent' = "DetailEditRelation" /\ state' = "viewRelationForm") =>
          LET r == db.Relations[IndexOfID(db.Relations, Deref(selectedRel').ID)]
          IN  /\ isEditing'
              /\ inputRelDesc' = r.Description
              /\ inputRelStr' = SprintfD(r.Strength)]_vars

\* C30: "e" and "d" of the detail view on a selected person that no relation
\* of the document touches leave the state, the selected relation, the
\* buffers, the document and the store as they are; otherwise a relation of
\* the list is highlighted, it is a relation of the document that touches the
\* selected person, it becomes the selected relation, and "e" goes to the
\* relation form for an edit, "d" to the confirmation of the relation delete.
C30_RelationActionsNeedSelection ==
  [][lastEvent' \in {"DetailEditRelation", "DetailDeleteRelation"} =>
       LET p == Deref(selectedPerson)
           T == {k \in 1..Len(db.Relations) :
                   db.Relations[k].FromID = p.ID \/ db.Relations[k].ToID = p.ID}
       IN  /\ state = "viewDetail"
           /\ db' = db /\ disk' = disk /\ lastWrites' = 0
           /\ selectedPerson' = selectedPerson
           /\ IF T = {}
              THEN /\ state' = "viewDetail"
                   /\ selectedRel' = selectedRel
                   /\ isEditing' = isEditing
                   /\ UNCHANGED <<personFormVars, relFormVars, tagVars>>
              ELSE /\ lastSel' \in 1..Len(listRelations)
                   /\ selectedRel' = Ref(listRelations[lastSel'].Rel)
                   /\ \E k \in T : db.Relations[k] = Deref(selectedRel')
                   /\ lastEvent' = "DetailEditRelation" =>
                        state' = "viewRelationForm" /\ isEditing'
                   /\ lastEvent' = "DetailDeleteRelation" =>
                        state' = "viewConfirmDeleteRelation"]_vars

\* "e" after the only relation of the selected person was deleted: the detail
\* view stays, the relation selected for the delete is still the selected one
C30_Witness ==
  /\ lastEvent = "DetailEditRelation"
  /\ state = "viewDetail"
  /\ db.Relations = <<>>
  /\ selectedRel # Nil
  /\ Deref(selectedRel).ID = "r"
  /\ disk = JSONFile(Marshal(db))

\* C31: "esc" in the tag view goes to the person form and leaves the pending
\* tags, the name and the notes, the document and the store as they are, and
\* the mode of the form is the mode the tag view was opened in: "ctrl+g" of
\* the person form keeps the mode, "ctrl+g" of the detail view sets the
\* editing mode, and no step inside the tag view or out of it by "esc"
\* changes the mode.
C31_TagSelectCancel ==
  [][/\ lastEvent' = "TagSelectEsc" =>
          /\ state = "viewTagSelect"
          /\ state' = "viewPersonForm"
          /\ tempTags' = tempTags
          /\ inputName' = inputName /\ inputNotes' = inputNotes
          /\ db' = db /\ disk' = disk /\ lastWrites' = 0
          /\ isEditing' = isEditing
     /\ lastEvent' = "PersonFormManageTags" =>
          state' = "viewTagSelect" /\ isEditing' = isEditing
     /\ lastEvent' = "DetailManageTags" =>
          state' = "viewTagSelect" /\ isEditing'
     /\ (state = "viewTagSelect" /\ state' = "viewTagSelect") =>
          isEditing' = isEditing]_vars

\* the tag view opened from the detail view of b and left by "esc": the
\* person form is in the editing mode and holds the tags of b
C31_Witness ==
  /\ lastEvent = "TagSelectEsc"
  /\ events = 3
  /\ state = "viewPersonForm"
  /\ isEditing
  /\ selectedPerson # Nil
  /\ tempTags = <<TagWork>>

\* the place in the table of the transform a printed line names
TransformIndex(migs, line) ==
  CHOOSE i \in 1..Len(migs) :
    migs[i].FromVersion = line.from /\ migs[i].ToVersion = line.to

\* C32: on every stored document the loop of RunMigrations ends after at most
\* as many transforms as the table has; the transforms it calls start at the
\* version of the document, each starts at the version the one before led
\* to, they are transforms of the table in the order of the table, none is
\* called twice, and none leads to a version the document has been at; when
\* the loop ends without an error no transform starts at the version reached.
C32_MigrationForwardOnly ==
  [][(lastEvent' = "RunMigrations" /\ disk.kind = "json") =>
       LET run == RunMigrations(migrations, disk, "ok")
           pr == run.printed
       IN  /\ Len(pr) <= Len(migrations)
           /\ \A k \in 1..Len(pr) :
                \E i \in 1..Len(migrations) :
                  /\ migrations[i].FromVersion = pr[k].from
                  /\ migrations[i].ToVersion = pr[k].to
           /\ pr # <<>> => pr[1].from = VersionOf(disk.doc)
           /\ \A k \in 1..(Len(pr) - 1) : pr[k + 1].from = pr[k].to
           /\ \A k, l \in 1..Len(pr) :
                /\ k < l => TransformIndex(migrations, pr[k])
                              < TransformIndex(migrations, pr[l])
                /\ k <= l => pr[l].to # pr[k].from
           /\ pc' = "migrated" =>
                /\ run.applied = Len(pr)
                /\ FoundMigration(migrations,
                                  IF pr = <<>> THEN VersionOf(disk.doc)
                                  ELSE pr[Len(pr)].to) = Nil
           /\ (lastWrites' = 1 /\ lastOutcome' = "ok") =>
                VersionOf(disk'.doc) = pr[Len(pr)].to]_vars

\* both transforms of a table of two were called, in the order of the table,
\* on a document without a version, which is now at "1.0.0"
C32_Witness ==
  /\ lastEvent = "RunMigrations"
  /\ pc = "migrated"
  /\ lastWrites = 1 /\ lastOutcome = "ok"
  /\ Len(migrations) = 2
  /\ disk0.kind = "json"
  /\ RunMigrations(migrations, disk0, "ok").printed =
       <<Migrating("0.0.0", "0.0.1"), Migrating("0.0.1", "1.0.0")>>
  /\ VersionOf(disk.doc) = "1.0.0"

\* C33: in every state but the people list and the person form and tag view
\* for a new person, m.selectedPerson is set and has the ID of a person of
\* the document; in the relation form for an edit and in the confirmation of
\* the relation delete m.selectedRel is set and has the ID of a relation of
\* the document that starts or ends at the selected person; in the relation
\* form for a new relation m.targetPerson is set, is a person of the
\* document and is not the selected person. These are the selections the
\* handlers of those states read.
C33_SelectionValid ==
  /\ pc = "session"
  /\ (\/ state \in {"viewDetail", "viewConfirmDeletePerson", "viewRelationTarget",
                     "viewRelationForm", "viewConfirmDeleteRelation"}
      \/ state \in {"viewPersonForm", "viewTagSelect"} /\ isEditing) =>
       /\ selectedPerson # Nil
       /\ Deref(selectedPerson).ID \in IDs(db.People)
  /\ (\/ state = "viewRelationForm" /\ isEditing
      \/ state = "viewConfirmDeleteRelation") =>
       /\ selectedRel # Nil
       /\ \E k \in 1..Len(db.Relations) :
            /\ db.Relations[k].ID = Deref(selectedRel).ID
            /\ \/ db.Relations[k].FromID = Deref(selectedPerson).ID
               \/ db.Relations[k].ToID = Deref(selectedPerson).ID
  /\ (state = "viewRelationForm" /\ ~isEditing) =>
       /\ targetPerson # Nil
       /\ Deref(targetPerson).ID \in IDs(db.People)
       /\ Deref(targetPerson).ID # Deref(selectedPerson).ID

\* the confirmation of the delete of a relation that was created in this
\* session, reached from the detail view of b
C33_Witness ==
  /\ state = "viewConfirmDeleteRelation"
  /\ selectedRel # Nil
  /\ Deref(selectedRel).ID = "u1"
  /\ selectedPerson # Nil
  /\ Deref(selectedPerson).ID = "b"
  /\ targetPerson # Nil

\* the number of cancel keys from the state to the people list
BackRank ==
  CASE state = "viewListPeople" -> 0
    [] state = "viewDetail" -> 1
    [] state = "viewPersonForm" -> IF isEditing THEN 2 ELSE 1
    [] state = "viewTagSelect" -> IF isEditing THEN 3 ELSE 2
    [] OTHER -> 2

\* the cancel key of each view
CancelEvents ==
  {"TagSelectEsc", "PersonFormEsc", "DetailBack", "ConfirmDeletePersonNo",
   "RelationTargetEsc", "RelationFormEsc", "ConfirmDeleteRelationNo"}

\* the handler of the cancel key of the state
Cancel ==
  \/ TagSelectEsc
  \/ PersonFormEsc
  \/ DetailBack
  \/ ConfirmDeletePersonNo
  \/ RelationTargetEsc
  \/ RelationFormEsc
  \/ ConfirmDeleteRelationNo

\* C34: every state is at most three cancel keys away from the people list:
\* outside the people list the cancel key of the view is handled (while the
\* run may handle another key), each cancel key leads one step closer to the
\* people list, which is at most three steps away, and changes neither the
\* document nor the store.
C34_NoDeadEnd ==
  [][/\ BackRank \in 0..3
     /\ (state # "viewListPeople" /\ events < MaxEvents) => ENABLED Cancel
     /\ lastEvent' \in CancelEvents =>
          /\ BackRank > 0
          /\ BackRank' = BackRank - 1
          /\ db' = db /\ disk' = disk /\ lastWrites' = 0]_vars

\* the people list reached from the tag view of a by three cancel keys,
\* after "W" was typed there: nothing was added to the pending tags
C34_Witness ==
  /\ state = "viewListPeople"
  /\ lastEvent = "DetailBack"
  /\ events = 6
  /\ inputTag = <<"W">>
  /\ tempTags = <<>>
  /\ isEditing
  /\ disk = disk0

\* the tags the document has for the person with the ID id
TagsOf(d, id) == d.People[IndexOfID(d.People, id)].Tags

\* C35: the "enter" of the tag view changes the pending tags and nothing of
\* the document, the store, the selected person or the other buffers; the
\* tags a person has in the document change only by the "enter" of the
\* person form on the notes in the editing mode, for the selected person, to
\* the pending tags; "esc" of the person form leaves the document and the
\* selected person with the tags they had, whatever the pending tags are.
C35_TagsBuffered ==
  [][/\ lastEvent' = "TagSelectEnter" =>
          /\ db' = db /\ disk' = disk /\ lastWrites' = 0
          /\ selectedPerson' = selectedPerson
          /\ inputName' = inputName /\ inputNotes' = inputNotes
          /\ state' = "viewPersonForm"
     /\ \/ db'.People = db.People
        \/ \A id \in IDs(db.People) \cap IDs(db'.People) :
          TagsOf(db', id) # TagsOf(db, id) =>
            /\ lastEvent' = "PersonFormEnter"
            /\ state = "viewPersonForm" /\ ~nameFocused /\ isEditing
            /\ id = Deref(selectedPerson).ID
            /\ TagsOf(db', id) = tempTags
     /\ (lastEvent' = "PersonFormEsc" /\ isEditing) =>
          /\ db' = db /\ disk' = disk
          /\ state' = "viewDetail"
          /\ Deref(selectedPerson').Tags = Deref(selectedPerson).Tags
          /\ TagsOf(db', Deref(selectedPerson').ID) = Deref(selectedPerson').Tags]_vars

\* the tag view was opened from the detail view of a, its "enter" added the
\* tag work to the pending tags, and the person form was left by "esc": a has
\* no tags, in the document and in the file
C35_Witness ==
  /\ lastEvent = "PersonFormEsc"
  /\ events = 4
  /\ state = "viewDetail"
  /\ tempTags = <<TagWork>>
  /\ Deref(selectedPerson).ID = "a"
  /\ Deref(selectedPerson).Tags = <<>>
  /\ TagsOf(db, "a") = <<>>
  /\ disk = disk0

\* tags with the tag t added when it is not empty and not there
WithTag(tags, t) ==
  IF t # <<>> /\ t \notin Range(tags) THEN tags \o <<t>> ELSE tags

\* C36: the "enter" of the tag view adds the typed text, trimmed, only when
\* the list is empty; when the list has entries it resolves to the first
\* entry of the list and adds nothing else.
C36_FirstCandidate ==
  [][lastEvent' = "TagSelectEnter" =>
       tempTags' = IF listTags = <<>>
                   THEN WithTag(tempTags, TrimSpace(inputTag))
                   ELSE WithTag(tempTags, listTags[1])]_vars

\* C36, as the handlers have it: the "enter" of the tag view adds the typed
\* text, trimmed, only when the list is empty; when the list has entries it
\* resolves to the highlighted entry and adds nothing else; the highlighted
\* entry is the first of the list when the view is opened and after every
\* key that changes the search text, and only "down" and "up" move it.
C36_HighlightedCandidate ==
  [][/\ lastEvent' = "TagSelectEnter" =>
          tempTags' = IF listTags = <<>>
                      THEN WithTag(tempTags, TrimSpace(inputTag))
                      ELSE WithTag(tempTags, listTags[tagCursor + 1])
     /\ lastEvent' \in {"DetailManageTags", "PersonFormManageTags",
                        "TagSelectType", "TagSelectBackspace"} =>
          tagCursor' = 0
     /\ tagCursor' # tagCursor =>
          lastEvent' \in {"TagSelectMove", "DetailManageTags",
                          "PersonFormManageTags", "TagSelectType",
                          "TagSelectBackspace"}]_vars

\* "W" was typed, the list held w only, and "enter" added w and not W
C36_Witness ==
  /\ lastEvent = "TagSelectEnter"
  /\ inputTag = <<"W">>
  /\ tagCursor = 0
  /\ listTags = <<TagLower>>
  /\ tempTags = <<TagLower>>
====
